---- MODULE Spec2Model ----
(***************************************************************************)
(* Model of the seed-based question generator (MathGenerator.ts) and of    *)
(* the score submission endpoint (api/submitScore/route.ts).               *)
(*                                                                         *)
(* Strings are sequences of UTF-16 code units.  A 32-bit word is a pair    *)
(* <<hi, lo>> of 16-bit halves, so that every intermediate value of the    *)
(* 32-bit arithmetic stays inside the integers of the model checker.       *)
(***************************************************************************)
EXTENDS Integers, Sequences, FiniteSets, TLC

VARIABLES
    gpc,        \* "idle", "called" (one call made), "recalled" (second call made)
    gArgs,      \* arguments of the latest generateQuestion call
    gq,         \* the question it returned
    firstArgs,  \* arguments of the first call
    firstQ,     \* the question the first call returned
    calls,      \* number of generateQuestion calls made so far
    session,    \* the session issued to the client: seed, userId, expiresAt, token
    log,        \* playedQuestionsRef.current of the client
    edited,     \* whether an entry of the log was altered after it was recorded
    req,        \* body of the request being handled
    now,        \* the time the handler read from the clock
    pc,         \* position of the handler
    i,          \* loop variable of the replay
    maxPossibleScore,
    verifiedCorrect,
    passed,     \* the checks the handler has passed, in order
    resp,       \* the response returned
    entries,    \* InMemoryLeaderboard.entries
    added,      \* the (userId, score) pairs handed to leaderboard.addScore
    cpc,        \* "idle", "ready" (arguments chosen), "returned" (call made)
    cArgs,      \* arguments of a direct generateCSATChoices call
    cOut,       \* what that call did: threw, choices, state word of the rng
    sortEngine, \* the sort algorithm of the runtime the middle generator runs on
    mpc,        \* "idle", "called", "recalled": calls of generateMiddleQuestion
    mArgs,      \* arguments of the generateMiddleQuestion calls
    mq,         \* the question the latest call returned
    mFirstQ,    \* the question the first call returned
    dArgs,      \* arguments of a direct generateCognitiveDistractors call
    dOut,       \* the choices that call returned
    lbImpl,     \* the leaderboard class getLeaderboard constructed
    lbData,     \* what that leaderboard stores: the Map, the blob or the sorted set
    lbBest,     \* per user, the highest score handed to addScore so far
    lbCalls,    \* number of addScore calls made
    lbOps,      \* the addScore calls in flight: position, arguments, what each read
    gameScore,  \* SuneungGame: score
    gameCombo,  \* useGameSession: combo
    gameLevel,  \* useGameSession: currentLevel
    timeLeft,   \* useGameTimer: time
    playedCount,\* length of playedQuestionsRef.current
    pendingNext,\* level the pending nextQuestion timer carries, 0 when none is pending
    thinkTicks, \* timer ticks since the previous answer
    wrongCount, \* wrong answers given so far
    isGameOver, \* SuneungGame: isGameOver
    hookState,  \* useGameSession: the state React holds
    hookView,   \* the state the callbacks of the latest render closed over
    playedLog,  \* playedQuestionsRef.current, as question ids
    timers,     \* pending setTimeout callbacks: the index each will load
    taps,       \* number of taps made so far
    endKind,    \* the game component mounted: "suneung" or "middle"
    endState,   \* its state in React: time (tenths of a second), isGameOver, feedback
    endView,    \* the state the handlers of the latest render closed over
    endInterval,\* whether the interval of useGameTimer is set
    endTimeouts,\* number of pending nextQuestion timeouts
    endAnswers, \* answers given so far
    endCalls,   \* number of onGameEnd invocations
    tokenFor,   \* the seed, userId and expiresAt a token was created for
    tokenTry,   \* the seed, userId and expiresAt presented with that token
    tokenOk,    \* what verifyToken returned: "none" before the call
    icalls,     \* interleaved generateQuestion calls: position, arguments, result
    irng,       \* per call, the state word its mulberry32 closure holds
    fill,       \* a fill loop in progress: kind, answer, selected, offset, position
    diffCall,   \* a generateType2Question call in progress: position, attempts, locals
    twin        \* two requests handled side by side: the bodies and what each got

gvars == <<gpc, gArgs, gq, firstArgs, firstQ, calls>>
svars == <<session, log, edited, req, now, pc, i, maxPossibleScore, verifiedCorrect,
           passed, resp, entries, added>>
cvars == <<cpc, cArgs, cOut>>
mvars == <<sortEngine, mpc, mArgs, mq, mFirstQ, dArgs, dOut>>
\* the variables outside the generator calls and the submission
lvars == <<lbImpl, lbData, lbBest, lbCalls, lbOps>>
kvars == <<gameScore, gameCombo, gameLevel, timeLeft, playedCount, pendingNext,
           thinkTicks, wrongCount, isGameOver>>
hvars == <<hookState, hookView, playedLog, timers, taps>>
evars == <<endKind, endState, endView, endInterval, endTimeouts, endAnswers, endCalls>>
tvars == <<tokenFor, tokenTry, tokenOk>>
ivars == <<icalls, irng>>
fvars == <<fill>>
dvars == <<diffCall>>
wvars == <<twin>>
ovars == <<cvars, mvars, lvars, kvars, hvars, evars, tvars, ivars, fvars, dvars, wvars>>
vars == <<gpc, gArgs, gq, firstArgs, firstQ, calls,
          session, log, edited, req, now, pc, i, maxPossibleScore, verifiedCorrect,
          passed, resp, entries, added, cpc, cArgs, cOut,
          sortEngine, mpc, mArgs, mq, mFirstQ, dArgs, dOut,
          lbImpl, lbData, lbBest, lbCalls, lbOps,
          gameScore, gameCombo, gameLevel, timeLeft, playedCount, pendingNext,
          thinkTicks, wrongCount, isGameOver,
          hookState, hookView, playedLog, timers, taps,
          endKind, endState, endView, endInterval, endTimeouts, endAnswers, endCalls,
          tokenFor, tokenTry, tokenOk, icalls, irng, fill, diffCall, twin>>

\* ------------------------------------------------------------------------
\* 32-bit words
\* ------------------------------------------------------------------------
W16 == 65536

Hi(w) == w[1]
Lo(w) == w[2]

RECURSIVE Pow2(_)
Pow2(k) == IF k = 0 THEN 1 ELSE 2 * Pow2(k - 1)

RECURSIVE Xor16(_, _)
Xor16(a, b) ==
    IF a = 0 THEN b
    ELSE IF b = 0 THEN a
    ELSE (((a % 2) + (b % 2)) % 2) + 2 * Xor16(a \div 2, b \div 2)

RECURSIVE Or16(_, _)
Or16(a, b) ==
    IF a = 0 THEN b
    ELSE IF b = 0 THEN a
    ELSE (IF a % 2 = 1 \/ b % 2 = 1 THEN 1 ELSE 0) + 2 * Or16(a \div 2, b \div 2)

\* a ^ b
Xor32(a, b) == <<Xor16(Hi(a), Hi(b)), Xor16(Lo(a), Lo(b))>>

\* a | c for a constant c < 2^16
OrLow(a, c) == <<Hi(a), Or16(Lo(a), c)>>

\* a >>> k, 0 < k < 16
Shr32(a, k) ==
    << Hi(a) \div Pow2(k),
       (Lo(a) \div Pow2(k)) + ((Hi(a) % Pow2(k)) * Pow2(16 - k)) >>

\* (a + b) | 0
Add32(a, b) ==
    LET lo == Lo(a) + Lo(b)
    IN  << (Hi(a) + Hi(b) + (lo \div W16)) % W16, lo % W16 >>

\* x * y mod 2^16 for 16-bit x, y, by bytes
MulMod16(x, y) == ((x % 256) * y + (((x \div 256) * y) % 256) * 256) % W16

\* Math.imul(a, b)
Imul(a, b) ==
    LET p0  == (Lo(a) % 256) * Lo(b)
        p1  == (Lo(a) \div 256) * Lo(b)
        low == p0 + ((p1 % 256) * 256)
        car == (low \div W16) + (p1 \div 256)
    IN  << (car + MulMod16(Hi(a), Lo(b)) + MulMod16(Lo(a), Hi(b))) % W16,
           low % W16 >>

\* ------------------------------------------------------------------------
\* hashSeed and mulberry32
\* ------------------------------------------------------------------------
\* hash = ((hash << 5) - hash + char) | 0, i.e. 31 * hash + char mod 2^32
HashStep(hash, char) ==
    LET lo == 31 * Lo(hash) + char
    IN  << (31 * Hi(hash) + (lo \div W16)) % W16, lo % W16 >>

RECURSIVE HashFrom(_, _, _)
HashFrom(str, pos, hash) ==
    IF pos > Len(str) THEN hash ELSE HashFrom(str, pos + 1, HashStep(hash, str[pos]))

hashSeed(str) == HashFrom(str, 1, <<0, 0>>)

\* 0x6d2b79f5
Golden == <<27947, 31221>>

\* the state word after one more call of the closure
RngAdvance(s) == Add32(s, Golden)

\* let t = Math.imul(seed ^ (seed >>> 15), 1 | seed)
RngMix15(t) == Imul(Xor32(t, Shr32(t, 15)), OrLow(t, 1))

\* t = (t + Math.imul(t ^ (t >>> 7), 61 | t)) ^ t
RngMix7(t) == Xor32(Add32(t, Imul(Xor32(t, Shr32(t, 7)), OrLow(t, 61))), t)

\* (t ^ (t >>> 14)) >>> 0
RngMix14(t) == Xor32(t, Shr32(t, 14))

\* the 32-bit numerator of the value returned for state word s (already advanced)
RngOut(s) == RngMix14(RngMix7(RngMix15(s)))

\* Math.floor(rng() * n) where rng() returned word/2^32, n < 2^15
FloorMul(word, n) == (Hi(word) * n + ((Lo(word) * n) \div W16)) \div W16

\* rng() > 0.5
GtHalf(word) == Hi(word) > 32768 \/ (Hi(word) = 32768 /\ Lo(word) > 0)

\* ------------------------------------------------------------------------
\* Small helpers
\* ------------------------------------------------------------------------
Range(seq) == { seq[k] : k \in 1..Len(seq) }

\* Set.prototype.add on a Set kept in insertion order
SetAdd(seq, v) == IF v \in Range(seq) THEN seq ELSE Append(seq, v)

\* if (cond) set.add(v)
AddIf(cond, seq, v) == IF cond THEN SetAdd(seq, v) ELSE seq

RECURSIVE Pow(_, _)
Pow(b, e) == IF e = 0 THEN 1 ELSE b * Pow(b, e - 1)

Max(a, b) == IF a >= b THEN a ELSE b
Min(a, b) == IF a <= b THEN a ELSE b

\* Math.round(a * p / q) for a, p, q > 0 (ties round up)
RoundFrac(a, p, q) == (2 * a * p + q) \div (2 * q)

\* Math.floor(rng() * n), for the state word s the closure holds after the call
Rnd(s, n) == FloorMul(RngOut(s), n)

RECURSIVE InsertSorted(_, _)
InsertSorted(seq, v) ==
    IF seq = <<>> THEN <<v>>
    ELSE IF v - Head(seq) < 0 THEN <<v>> \o seq
    ELSE <<Head(seq)>> \o InsertSorted(Tail(seq), v)

\* mutant of SortAsc: the choices are returned in insertion order
SortAscNone(seq) == seq

\* Array.prototype.sort((a, b) => a - b)
RECURSIVE SortAsc(_)
SortAsc(seq) == IF seq = <<>> THEN <<>> ELSE InsertSorted(SortAsc(Tail(seq)), Head(seq))

\* ------------------------------------------------------------------------
\* generateCSATChoices
\* ------------------------------------------------------------------------
RECURSIVE isPowerOfLoop(_, _)
isPowerOfLoop(n, base) ==
    IF n > 1
    THEN IF n % base # 0 THEN FALSE ELSE isPowerOfLoop(n \div base, base)
    ELSE n = 1

isPowerOf(n, base) == IF n <= 0 \/ base <= 1 THEN FALSE ELSE isPowerOfLoop(n, base)

detectBase(n) == IF isPowerOf(n, 2) THEN 2 ELSE IF isPowerOf(n, 3) THEN 3 ELSE 0

\* for (e = 1..12) { v = base^e; if (v > 0 && v <= 10000) powers.push(v) },
\* then powers.filter(v => v !== answer).forEach(v => pool.add(v))
RECURSIVE PowersInto(_, _, _, _)
PowersInto(pool, base, e, answer) ==
    IF e > 12 \/ Pow(base, e) > 10000 THEN pool
    ELSE PowersInto(AddIf(Pow(base, e) # answer, pool, Pow(base, e)), base, e + 1, answer)

\* offsets.forEach(o => { if (answer > o) pool.add(answer - o); pool.add(answer + o) })
RECURSIVE OffsetsInto(_, _, _)
OffsetsInto(pool, offsets, answer) ==
    IF offsets = <<>> THEN pool
    ELSE OffsetsInto(
           SetAdd(AddIf(answer > Head(offsets), pool, answer - Head(offsets)),
                  answer + Head(offsets)),
           Tail(offsets), answer)

\* for (d = 1..8) if (d !== answer) pool.add(d)
RECURSIVE SmallInto(_, _, _)
SmallInto(pool, d, answer) ==
    IF d > 8 THEN pool ELSE SmallInto(AddIf(d # answer, pool, d), d + 1, answer)

\* fracs.forEach(f => { v = Math.round(answer * f); if (v > 0 && v !== answer) pool.add(v) })
RECURSIVE FracsInto(_, _, _)
FracsInto(pool, fracs, answer) ==
    IF fracs = <<>> THEN pool
    ELSE LET v == RoundFrac(answer, Head(fracs)[1], Head(fracs)[2])
         IN  FracsInto(AddIf(v > 0 /\ v # answer, pool, v), Tail(fracs), answer)

SmallTypes == {"log", "trig_basic", "limit_basic", "continuity", "extrema"}

\* the type-specific candidate pool, in insertion order
ChoicePool(answer, type) ==
    IF type = "exp" THEN
        LET base == detectBase(answer)
            p0 == IF base > 0 THEN PowersInto(<<>>, base, 1, answer) ELSE <<>>
            p1 == AddIf(answer * 2 <= 5000, p0, answer * 2)
            p2 == AddIf(answer * 3 <= 5000, p1, answer * 3)
            p3 == AddIf(answer % 2 = 0 /\ answer \div 2 > 0, p2, answer \div 2)
        IN  AddIf(answer % 3 = 0 /\ answer \div 3 > 0, p3, answer \div 3)
    ELSE IF type \in SmallTypes THEN SmallInto(<<>>, 1, answer)
    ELSE IF type = "int" THEN
        LET p0 == FracsInto(<<>>, << <<2, 3>>, <<3, 4>>, <<4, 3>>, <<3, 2>>, <<1, 2>>, <<5, 4>> >>, answer)
            p1 == AddIf(answer > 3, p0, answer - 3)
            p2 == SetAdd(p1, answer + 3)
            p3 == AddIf(answer > 5, p2, answer - 5)
        IN  SetAdd(p3, answer + 5)
    ELSE IF type = "diff" THEN
        LET p0 == OffsetsInto(<<>>, <<2, 4, 6, 8>>, answer)
            p1 == AddIf(answer % 2 = 0, p0, answer \div 2)
            p2 == AddIf(answer % 3 = 0, p1, answer \div 3)
        IN  SetAdd(p2, answer * 2)
    ELSE IF type \in {"seq", "sigma_basic"} THEN
        AddIf(answer > 6, OffsetsInto(<<>>, <<3, 5, 7, 10, 12, 15>>, answer), answer - 6)
    ELSE
        LET p0 == AddIf(answer > 1, <<>>, answer - 1)
            p1 == SetAdd(p0, answer + 1)
            p2 == AddIf(answer > 2, p1, answer - 2)
            p3 == SetAdd(p2, answer + 2)
            p4 == AddIf(answer % 2 = 0 /\ answer \div 2 > 0, p3, answer \div 2)
        IN  SetAdd(p4, answer * 2)

\* Array.from(pool).filter(d => d !== answer && d > 0 && Number.isInteger(d))
RECURSIVE FilterDistractors(_, _)
FilterDistractors(pool, answer) ==
    IF pool = <<>> THEN <<>>
    ELSE IF Head(pool) # answer /\ Head(pool) > 0
         THEN <<Head(pool)>> \o FilterDistractors(Tail(pool), answer)
         ELSE FilterDistractors(Tail(pool), answer)

\* [arr[i], arr[j]] = [arr[j], arr[i]], 1-based
Swap(arr, a, b) == [arr EXCEPT ![a] = arr[b], ![b] = arr[a]]

\* for (i = length - 1; i > 0; i--) { j = floor(rng() * (i + 1)); swap(i, j) }
\* idx is the loop variable i (0-based); returns the array and the state word
RECURSIVE Shuffle(_, _, _)
Shuffle(arr, idx, s) ==
    IF idx <= 0 THEN [arr |-> arr, rng |-> s]
    ELSE LET s1 == RngAdvance(s)
         IN  Shuffle(Swap(arr, idx + 1, Rnd(s1, idx + 1) + 1), idx - 1, s1)

\* for (i = 0; i < arr.length && selected.size < 4; i++) selected.add(arr[i])
RECURSIVE TakeFour(_, _, _)
TakeFour(arr, idx, selected) ==
    IF idx > Len(arr) \/ Len(selected) >= 4 THEN selected
    ELSE TakeFour(arr, idx + 1, SetAdd(selected, arr[idx]))

FillStep(answer) ==
    IF answer < 10 THEN 1 ELSE IF answer < 50 THEN 3 ELSE Max(5, RoundFrac(answer, 1, 10))

MaxOffset == 20

\* mutant of FillAdvance: the offset is left as it is
FillAdvanceNone(offset) == offset

\* offset++
FillAdvance(offset) == offset + 1

\* if (selected.size < 4 && candidate2 !== answer && !selected.has(candidate2)) add
FillSecond(a1, answer, candidate2) ==
    AddIf(Len(a1) < 4 /\ candidate2 # answer, a1, candidate2)

\* one pass of the body of the fill loop, before offset++
FillBody(selected, answer, step, offset) ==
    FillSecond(AddIf(answer - offset * step > 0 /\ answer - offset * step # answer,
                     selected, answer - offset * step),
               answer, answer + offset * step)

\* while (selected.size < 4) { ...; offset++; if (offset > 20) break }
RECURSIVE FillLoop(_, _, _, _)
FillLoop(selected, answer, step, offset) ==
    IF Len(selected) >= 4 THEN selected
    ELSE LET a2 == FillBody(selected, answer, step, offset)
         IN  IF FillAdvance(offset) > MaxOffset THEN a2
             ELSE FillLoop(a2, answer, step, FillAdvance(offset))

\* answer is [isInteger, value]; the result tells whether the call threw,
\* the sorted choices and the state word of the closure afterwards
\* the Fisher-Yates pass over the whole distractor array
ShuffleAll(arr, s) == Shuffle(arr, Len(arr) - 1, s)

\* selectedDistractors after the take and fill loops, then [answer, ...].sort
FinalChoices(sh, answer) ==
    [threw |-> FALSE,
     choices |-> SortAsc(<<answer>> \o FillLoop(TakeFour(sh.arr, 1, <<>>), answer,
                                                FillStep(answer), 1)),
     rng |-> sh.rng]

\* mutant of generateCSATChoices: the guard runs after the first draw
generateCSATChoicesLate(isInteger, answer, s, type) ==
    IF ~isInteger \/ answer <= 0
    THEN [threw |-> TRUE, choices |-> <<>>, rng |-> RngAdvance(s)]
    ELSE FinalChoices(ShuffleAll(FilterDistractors(ChoicePool(answer, type), answer),
                                 RngAdvance(s)), answer)

generateCSATChoices(isInteger, answer, s, type) ==
    IF ~isInteger \/ answer <= 0
    THEN [threw |-> TRUE, choices |-> <<>>, rng |-> s]
    ELSE FinalChoices(ShuffleAll(FilterDistractors(ChoicePool(answer, type), answer), s),
                      answer)

\* ------------------------------------------------------------------------
\* Question generators.  Each takes the state word of the rng closure and
\* returns latex (the template and the numbers it displays), answer,
\* isInteger (Number.isInteger(answer)), type and the state word afterwards.
\* ------------------------------------------------------------------------
Partial(tpl, args, isInteger, answer, type, s) ==
    [latex |-> [tpl |-> tpl, args |-> args], isInteger |-> isInteger,
     answer |-> answer, type |-> type, rng |-> s]

validPairs == << [d |-> 3, a |-> 1], [d |-> 5, a |-> 1], [d |-> 5, a |-> 2],
                 [d |-> 7, a |-> 2], [d |-> 6, a |-> 2] >>

\* [0] exp
Type1Partial(root, pair, s) ==
    Partial("exp", <<root, pair.d, pair.a>>, TRUE,
            Pow(root, pair.d - pair.a * pair.a), "exp", s)

generateType1Question(s) ==
    LET s1 == RngAdvance(s)
        s2 == RngAdvance(s1)
    IN  Type1Partial(<<2, 3>>[Rnd(s1, 2) + 1], validPairs[Rnd(s2, 5) + 1], s2)

\* the retry loop of generateType2Question; attempts counts the tries made
\* the values of one pass: answer = 3 * a * a + 2 * B * a + C
Type2Try(B, C, D, a, s) ==
    [B |-> B, C |-> C, D |-> D, a |-> a, answer |-> 3 * a * a + 2 * B * a + C, rng |-> s]

RECURSIVE Type2Loop(_, _)
Type2Retry(try, attempts) ==
    IF try.answer > 0 \/ attempts + 1 >= 100 THEN try ELSE Type2Loop(try.rng, attempts + 1)

Type2Loop(s, attempts) ==
    LET s1 == RngAdvance(s)
        s2 == RngAdvance(s1)
        s3 == RngAdvance(s2)
        s4 == RngAdvance(s3)
    IN  Type2Retry(Type2Try(Rnd(s1, 5) - 2, Rnd(s2, 5) - 2, Rnd(s3, 9) + 1,
                            Rnd(s4, 3) + 1, s4), attempts)

\* if (answer <= 0) { B = 1; C = 1; a = 1; answer = 5 }
Type2Fallback(l) ==
    IF l.answer <= 0 THEN [l EXCEPT !.B = 1, !.C = 1, !.a = 1, !.answer = 5] ELSE l

Type2Partial(v) == Partial("diff", <<v.B, v.C, v.D, v.a>>, TRUE, v.answer, "diff", v.rng)

\* [1] diff
generateType2Question(s) == Type2Partial(Type2Fallback(Type2Loop(s, 0)))

\* [2] seq
Type3Partial(N, ans, c, s) == Partial("seq", <<N, c, ans + c * N>>, TRUE, ans, "seq", s)

generateType3Question(s) ==
    LET s1 == RngAdvance(s)
        s2 == RngAdvance(s1)
        s3 == RngAdvance(s2)
    IN  Type3Partial(Rnd(s1, 4) + 7, Rnd(s2, 20) + 10, Rnd(s3, 3) + 2, s3)

\* the values of one pass: ans = a^3 + b * a^2
Type4Try(a, b, s) == [a |-> a, b |-> b, ans |-> a * a * a + b * a * a, rng |-> s]

RECURSIVE Type4Loop(_, _)
Type4Retry(try, attempts) ==
    IF try.ans > 0 \/ attempts + 1 >= 50 THEN try ELSE Type4Loop(try.rng, attempts + 1)

Type4Loop(s, attempts) ==
    LET s1 == RngAdvance(s)
        s2 == RngAdvance(s1)
    IN  Type4Retry(Type4Try(Rnd(s1, 3) + 1, Rnd(s2, 4) + 1, s2), attempts)

Type4Partial(l) == Partial("int", <<l.a, 2 * l.b>>, TRUE, l.ans, "int", l.rng)

\* [3] int
generateType4Question(s) == Type4Partial(Type4Loop(s, 0))

\* [4] log
Type5Partial(base, ans, p1, s) ==
    Partial("log", <<base, Pow(base, p1), Pow(base, ans - p1)>>, TRUE, ans, "log", s)

\* p1 = Math.floor(rng() * (ans - 1)) + 1
Type5Split(base, ans, s) == Type5Partial(base, ans, Rnd(s, ans - 1) + 1, s)

generateType5Question(s) ==
    LET s1 == RngAdvance(s)
        s2 == RngAdvance(s1)
        s3 == RngAdvance(s2)
    IN  Type5Split(<<2, 3>>[Rnd(s1, 2) + 1], Rnd(s2, 4) + 2, s3)

\* terms[i].val * 2 : sin(pi/6), cos(pi/3) are 0.5; tan(pi/4), cos 0, sin(pi/2) are 1
termsVal2 == <<1, 1, 2, 2, 2>>

\* answers are kept in halves (ans2 = 2 * ans) inside the loop
\* c = t.val === 0.5 ? (r + 1) * 2 : r + 1, for r = Math.floor(rng() * 4)
TrigCoeff(t, r) == IF termsVal2[t] = 1 THEN (r + 1) * 2 ELSE r + 1

\* 2 * ans for ans = c1 * t1.val + c2 * t2.val or c1 * t1.val - c2 * t2.val
TrigAns2(t1, t2, c1, c2, plus) ==
    IF plus THEN c1 * termsVal2[t1] + c2 * termsVal2[t2]
            ELSE c1 * termsVal2[t1] - c2 * termsVal2[t2]

RECURSIVE TrigLoop(_, _)
TrigCheck(t1, t2, c1, c2, plus, ans2, s, attempts) ==
    IF ans2 > 0 /\ ans2 % 2 = 0
    THEN Partial("trig", <<c1, t1, IF plus THEN 1 ELSE 0, c2, t2>>, TRUE,
                 ans2 \div 2, "trig_basic", s)
    ELSE IF attempts + 1 >= 50
    THEN Partial("", <<>>, ans2 % 2 = 0, ans2 \div 2, "trig_basic", s)
    ELSE TrigLoop(s, attempts + 1)

TrigTry(t1, t2, c1, c2, plus, s, attempts) ==
    TrigCheck(t1, t2, c1, c2, plus, TrigAns2(t1, t2, c1, c2, plus), s, attempts)

TrigTerms(t1, t2, r1, r2, plus, s, attempts) ==
    TrigTry(t1, t2, TrigCoeff(t1, r1), TrigCoeff(t2, r2), plus, s, attempts)

TrigLoop(s, attempts) ==
    LET s1 == RngAdvance(s)
        s2 == RngAdvance(s1)
        s3 == RngAdvance(s2)
        s4 == RngAdvance(s3)
        s5 == RngAdvance(s4)
    IN  TrigTerms(Rnd(s1, 5) + 1, Rnd(s2, 5) + 1, Rnd(s3, 4), Rnd(s4, 4),
                  GtHalf(RngOut(s5)), s5, attempts)

\* [5] trig_basic
generateTrigBasicQuestion(s) == TrigLoop(s, 0)

\* [6] limit_basic
LimitPartial(a, b, s) ==
    Partial("limit", <<b - a, (0 - a) * b, a>>, TRUE, a + b, "limit_basic", s)

generateLimitBasicQuestion(s) ==
    LET s1 == RngAdvance(s)
        s2 == RngAdvance(s1)
    IN  LimitPartial(Rnd(s1, 4) + 1, Rnd(s2, 5) + 1, s2)

\* the values of one pass: K = A * c + B - c * c
ContinuityTry(A, B, c, s) == [A |-> A, B |-> B, c |-> c, K |-> A * c + B - c * c, rng |-> s]

RECURSIVE ContinuityLoop(_, _)
ContinuityRetry(try, tries) ==
    IF try.K > 0 \/ tries + 1 >= 50 THEN try ELSE ContinuityLoop(try.rng, tries + 1)

ContinuityLoop(s, tries) ==
    LET s1 == RngAdvance(s)
        s2 == RngAdvance(s1)
        s3 == RngAdvance(s2)
    IN  ContinuityRetry(ContinuityTry(Rnd(s1, 3) + 1, Rnd(s2, 5) + 1, Rnd(s3, 3) + 1, s3),
                        tries)

\* if (K <= 0) { A = 2; B = 3; c = 1; K = 4 }
ContinuityFallback(l) ==
    IF l.K <= 0 THEN [l EXCEPT !.A = 2, !.B = 3, !.c = 1, !.K = 4] ELSE l

ContinuityPartial(v) ==
    Partial("continuity", <<v.A, v.B, v.c>>, TRUE, v.K, "continuity", v.rng)

\* [7] continuity
generateContinuityQuestion(s) ==
    ContinuityPartial(ContinuityFallback(ContinuityLoop(s, 0)))

\* [8] sigma_basic
SigmaPartial(N, A, B, s) ==
    Partial("sigma", <<N, A, B>>, TRUE, A * ((N * (N + 1)) \div 2) + B * N,
            "sigma_basic", s)

generateSigmaBasicQuestion(s) ==
    LET s1 == RngAdvance(s)
        s2 == RngAdvance(s1)
        s3 == RngAdvance(s2)
    IN  SigmaPartial(Rnd(s1, 3) + 4, Rnd(s2, 2) + 1, Rnd(s3, 3) + 1, s3)

extremaPairs == << <<1, 3>>, <<1, 5>>, <<3, 5>>, <<2, 4>>, <<2, 6>> >>

\* [9] extrema
ExtremaPartial(pair, C, s) ==
    Partial("extrema", <<(3 * (pair[1] + pair[2])) \div 2, 3 * pair[1] * pair[2], C>>,
            TRUE, pair[2], "extrema", s)

generateExtremaQuestion(s) ==
    LET s1 == RngAdvance(s)
        s2 == RngAdvance(s1)
    IN  ExtremaPartial(extremaPairs[Rnd(s1, 5) + 1], Rnd(s2, 10) + 1, s2)

\* generators[g](rng), g the 0-based position in the generators array
RunGenerator(g, s) ==
    CASE g = 0 -> generateType1Question(s)
      [] g = 1 -> generateType2Question(s)
      [] g = 2 -> generateType3Question(s)
      [] g = 3 -> generateType4Question(s)
      [] g = 4 -> generateType5Question(s)
      [] g = 5 -> generateTrigBasicQuestion(s)
      [] g = 6 -> generateLimitBasicQuestion(s)
      [] g = 7 -> generateContinuityQuestion(s)
      [] g = 8 -> generateSigmaBasicQuestion(s)
      [] g = 9 -> generateExtremaQuestion(s)

\* ------------------------------------------------------------------------
\* generateQuestion
\* ------------------------------------------------------------------------
QTypes == <<"exp", "diff", "seq", "int", "log", "trig_basic", "limit_basic",
            "continuity", "sigma_basic", "extrema">>

\* typeToIndexMap[t]; -1 stands for undefined (no such key)
typeToIndexMap(t) ==
    IF \E k \in 1..Len(QTypes) : QTypes[k] = t
    THEN (CHOOSE k \in 1..Len(QTypes) : QTypes[k] = t) - 1
    ELSE -1

\* allowedTypes.map(t => generators[typeToIndexMap[t]]).filter(Boolean)
RECURSIVE MapFilter(_)
MapFilter(types) ==
    IF types = <<>> THEN <<>>
    ELSE IF typeToIndexMap(Head(types)) >= 0
         THEN <<typeToIndexMap(Head(types))>> \o MapFilter(Tail(types))
         ELSE MapFilter(Tail(types))

\* mutant of LevelPool: every level draws from all ten generators
LevelPoolAll(level) == <<0, 1, 2, 3, 4, 5, 6, 7, 8, 9>>

\* the level-indexed pool (also used for prevAvailable)
LevelPool(level) ==
    IF level = 1 THEN <<0, 4, 5, 6>>
    ELSE IF level = 2 THEN <<0, 4, 5, 6, 1, 7>>
    ELSE IF level = 3 THEN <<5, 6, 1, 7, 8, 2>>
    ELSE IF level = 4 THEN <<1, 7, 8, 2, 3, 9>>
    ELSE <<0, 1, 2, 3, 4, 5, 6, 7, 8, 9>>

\* mutant of AvailableGenerators: the allowed-type list is ignored
AvailableIgnoringTypes(level, allowedTypes) == LevelPool(level)

\* allowedTypes = <<>> stands for both undefined and the empty list
AvailableGenerators(level, allowedTypes) ==
    IF Len(allowedTypes) > 0
    THEN IF Len(MapFilter(allowedTypes)) = 0 THEN <<0, 4, 5, 6>> ELSE MapFilter(allowedTypes)
    ELSE LevelPool(level)

\* String(index) for index >= 0, as code units
RECURSIVE Decimal(_)
Decimal(n) == IF n < 10 THEN <<48 + n>> ELSE Decimal(n \div 10) \o <<48 + (n % 10)>>

\* `${seed}-${index}`
QuestionId(seed, index) == seed \o <<45>> \o Decimal(index)

\* mutant of combinedSeed: the stream is seeded from a module-level call counter too
combinedSeedShared(seed, index) == Add32(hashSeed(QuestionId(seed, index)), <<0, calls>>)

\* const combinedSeed = hashSeed(`${seed}-${index}`)
combinedSeed(seed, index) == hashSeed(QuestionId(seed, index))

\* mutant of MakeId: the id also carries the answer
MakeIdWithAnswer(seed, index, partial) ==
    QuestionId(seed, index) \o <<45>> \o Decimal(partial.answer)

\* id: `${seed}-${index}` in the returned record
MakeId(seed, index, partial) == QuestionId(seed, index)

NoType == "null"

\* prevType: the type drawn first for index - 1 under the current level's pool
\* available[Math.floor(rng() * available.length)](rng), s the advanced state word
DrawQuestion(available, s) == RunGenerator(available[Rnd(s, Len(available)) + 1], s)

PrevType(seed, index, level) ==
    IF index > 0
    THEN DrawQuestion(LevelPool(level), RngAdvance(hashSeed(QuestionId(seed, index - 1)))).type
    ELSE NoType

IsValidAnswer(partial) == partial.isInteger /\ partial.answer > 0

MaxAttempts == 50
RepeatAttempts == 10

\* mutant of RepeatsPrev: a candidate of the previous type is accepted at once
RepeatsPrevNever(partial, attempts, available, prevType) == FALSE

\* availableGenerators.length > 1 && partial.type === prevType && attempts < 10
RepeatsPrev(partial, attempts, available, prevType) ==
    Len(available) > 1 /\ partial.type = prevType /\ attempts < RepeatAttempts

\* for (attempts = 0; attempts < 50; attempts++) { ... }
RECURSIVE SelectLoop(_, _, _, _)
SelectCheck(partial, attempts, available, prevType) ==
    IF (IsValidAnswer(partial) /\ ~RepeatsPrev(partial, attempts, available, prevType))
       \/ attempts + 1 >= MaxAttempts
    THEN [partial |-> partial, attempts |-> attempts]
    ELSE SelectLoop(partial.rng, attempts + 1, available, prevType)

SelectLoop(s, attempts, available, prevType) ==
    SelectCheck(DrawQuestion(available, RngAdvance(s)), attempts, available, prevType)

Hardcoded(s) == Partial("2 + 3 = ?", <<>>, TRUE, 5, "exp", s)

\* mutant of OrHardcoded: the candidate of the last attempt is kept as it is
OrHardcodedNever(sel) == sel

\* if (!partial || !Number.isInteger(partial.answer) || partial.answer <= 0) partial = ...
OrHardcoded(sel) ==
    [partial  |-> IF ~IsValidAnswer(sel.partial) THEN Hardcoded(sel.partial.rng)
                  ELSE sel.partial,
     attempts |-> sel.attempts]

\* the accepted candidate (or the hardcoded question) and the attempts made
\* the selection, run on the rng whose closure holds state word s
SelectFrom(s, seed, index, level, allowedTypes) ==
    OrHardcoded(SelectLoop(s, 0, AvailableGenerators(level, allowedTypes),
                           PrevType(seed, index, level)))

SelectQuestion(seed, index, level, allowedTypes) ==
    SelectFrom(combinedSeed(seed, index), seed, index, level, allowedTypes)

\* generateCSATChoices(partial.answer, rng, partial.type)
ChoicesFor(partial) ==
    generateCSATChoices(partial.isInteger, partial.answer, partial.rng, partial.type)

\* mutant of QuestionRecord: answer holds the 0-based position of the answer
\* in choices instead of its value
QuestionRecordPosition(seed, index, partial, attempts, made) ==
    [id |-> MakeId(seed, index, partial), latex |-> partial.latex,
     isInteger |-> partial.isInteger,
     answer |-> (CHOOSE k \in 1..Len(made.choices) : made.choices[k] = partial.answer) - 1,
     type |-> partial.type, choices |-> made.choices,
     attempts |-> attempts, threw |-> made.threw]

\* return { ...partial, id: `${seed}-${index}`, choices }; attempts and threw
\* are bookkeeping of the call
QuestionRecord(seed, index, partial, attempts, made) ==
    [id |-> MakeId(seed, index, partial), latex |-> partial.latex,
     isInteger |-> partial.isInteger, answer |-> partial.answer,
     type |-> partial.type, choices |-> made.choices,
     attempts |-> attempts, threw |-> made.threw]

WithChoices(seed, index, sel) ==
    QuestionRecord(seed, index, sel.partial, sel.attempts, ChoicesFor(sel.partial))

generateQuestion(seed, index, level, allowedTypes) ==
    WithChoices(seed, index, SelectQuestion(seed, index, level, allowedTypes))

\* ------------------------------------------------------------------------
\* MiddleMathGenerator: helpers
\* ------------------------------------------------------------------------
\* the state word of the rng closure after k more calls
Adv(s, k) ==
    Add32(s, << (Hi(Golden) * k + ((Lo(Golden) * k) \div W16)) % W16, (Lo(Golden) * k) % W16 >>)

\* rng() < 0.5, i.e. rng() - 0.5 < 0
LtHalf(word) == Hi(word) < 32768

\* rng() > 0.5 ? 1 : -1, for the state word s the closure holds after the call
Sign(s) == IF GtHalf(RngOut(s)) THEN 1 ELSE 0 - 1

\* (Math.floor(rng() * n) + 1) * (rng() > 0.5 ? 1 : -1): the two calls that
\* follow state word s
SignedRnd(s, n) == (Rnd(Adv(s, 1), n) + 1) * Sign(Adv(s, 2))

Abs(n) == IF n < 0 THEN 0 - n ELSE n

\* ------------------------------------------------------------------------
\* Array.prototype.sort(() => rng() - 0.5).  The comparator ignores its
\* arguments, so the order and the number of comparator calls are those of
\* the engine's algorithm, which ECMAScript leaves implementation-defined.
\* Two implementations are modelled: "timsort" (run detection followed by
\* binary insertion, what V8 does for short arrays) and "insertion" (plain
\* insertion sort).  Arrays are 1-based here; positions in comments are
\* 0-based as in the engines.
\* ------------------------------------------------------------------------
Engines == {"timsort", "insertion"}

\* the array with the element at position from (1-based) moved to position to <= from
MoveTo(arr, from, to) ==
    [k \in 1..Len(arr) |->
        IF k < to \/ k > from THEN arr[k]
        ELSE IF k = to THEN arr[from] ELSE arr[k - 1]]

\* the first n elements reversed
ReversePrefix(arr, n) ==
    [k \in 1..Len(arr) |-> IF k <= n THEN arr[n + 1 - k] ELSE arr[k]]

\* binary search of the insertion point of the pivot in positions left..right-1
\* (0-based): order < 0 moves right to mid, otherwise left to mid + 1
RECURSIVE BinarySearch(_, _, _)
BinarySearch(left, right, s) ==
    IF left >= right THEN [pos |-> left, rng |-> s]
    ELSE IF LtHalf(RngOut(RngAdvance(s)))
         THEN BinarySearch(left, left + ((right - left) \div 2), RngAdvance(s))
         ELSE BinarySearch(left + ((right - left) \div 2) + 1, right, RngAdvance(s))

RECURSIVE BinaryInsertionSort(_, _, _)
BinaryInsert(arr, start, found) ==
    BinaryInsertionSort(MoveTo(arr, start + 1, found.pos + 1), start + 1, found.rng)

\* for (; start < high; ++start) insert workArray[start] into the sorted prefix
BinaryInsertionSort(arr, start, s) ==
    IF start >= Len(arr) THEN [arr |-> arr, rng |-> s]
    ELSE BinaryInsert(arr, start, BinarySearch(0, start, s))

\* the run that starts at position 0: its length, whether it descends, and
\* the state word; idx is the 0-based position compared next
RECURSIVE CountRun(_, _, _, _)
CountRun(n, idx, descending, s) ==
    IF idx >= n THEN [len |-> idx, rng |-> s]
    ELSE IF LtHalf(RngOut(RngAdvance(s))) = descending
         THEN CountRun(n, idx + 1, descending, RngAdvance(s))
         ELSE [len |-> idx, rng |-> RngAdvance(s)]

MakeRun(arr, descending, run) ==
    BinaryInsertionSort(IF descending THEN ReversePrefix(arr, run.len) ELSE arr,
                        run.len, run.rng)

TimSort(arr, s) ==
    IF Len(arr) < 2 THEN [arr |-> arr, rng |-> s]
    ELSE MakeRun(arr, LtHalf(RngOut(RngAdvance(s))),
                 CountRun(Len(arr), 2, LtHalf(RngOut(RngAdvance(s))), RngAdvance(s)))

\* insertion sort: for j = i - 1 down to 0, order > 0 shifts a[j] up, else stop
RECURSIVE SinkFrom(_, _)
SinkFrom(j, s) ==
    IF j < 0 THEN [pos |-> 0, rng |-> s]
    ELSE IF GtHalf(RngOut(RngAdvance(s))) THEN SinkFrom(j - 1, RngAdvance(s))
         ELSE [pos |-> j + 1, rng |-> RngAdvance(s)]

RECURSIVE InsertionSort(_, _, _)
InsertionStep(arr, idx, found) ==
    InsertionSort(MoveTo(arr, idx + 1, found.pos + 1), idx + 1, found.rng)

InsertionSort(arr, idx, s) ==
    IF idx >= Len(arr) THEN [arr |-> arr, rng |-> s]
    ELSE InsertionStep(arr, idx, SinkFrom(idx - 1, s))

\* [...arr].sort(() => rng() - 0.5)
RandomSort(arr, s, engine) ==
    IF engine = "timsort" THEN TimSort(arr, s) ELSE InsertionSort(arr, 1, s)

\* ------------------------------------------------------------------------
\* generateCognitiveDistractors
\* ------------------------------------------------------------------------
\* pool.add for each value of a list, in order
RECURSIVE AddAll(_, _)
AddAll(pool, vals) == IF vals = <<>> THEN pool ELSE AddAll(SetAdd(pool, Head(vals)), Tail(vals))

\* the values the branch of a type tag adds to the pool, in order; a value
\* that the branch adds under a condition is left out when it fails
CognitivePool(answer, type) ==
    IF type = "quadrant" THEN
        SelectSeq(<<1, 2, 3, 4>>, LAMBDA v : v # answer)
    ELSE IF type = "sign_integer" THEN
        AddAll(<<>>, <<0 - answer, Abs(answer) + 2, 0 - (Abs(answer) + 2),
                       IF answer > 0 THEN answer + 4 ELSE answer - 4>>)
    ELSE IF type = "exponent_basic" THEN
        AddAll(<<>>, <<answer * 2, answer \div 2>>)
    ELSE IF type = "prime_factor" THEN
        AddAll(<<>>, <<answer + 1, Max(1, answer - 1), answer * 2>>)
    ELSE IF type \in {"linear_eq", "quadratic_roots", "quadratic_vertex"} THEN
        AddAll(IF answer # 0 THEN <<0 - answer>> ELSE <<>>, <<answer + 1, answer - 1>>)
    ELSE IF type = "mean_median" THEN
        AddAll(<<>>, <<answer + 1, Max(1, answer - 1)>>)
    ELSE IF type = "pythagoras_svg" THEN
        AddAll(<<>>, <<answer + 1, Max(1, answer - 1), answer + 2>>)
    ELSE IF type = "inscribed_angle_svg" THEN
        AddAll(IF answer % 2 = 0 THEN <<answer \div 2>> ELSE <<>>,
               <<answer * 2, answer + 10, Max(10, answer - 10)>>)
    ELSE IF type = "divisor_count" THEN
        AddAll(<<>>, <<Max(1, answer - 1), Max(1, answer - 2), answer + 1, answer + 2>>)
    ELSE IF type = "triangle_outer" THEN
        AddAll(<<>>, <<180 - answer, answer + 10, Max(10, answer - 10)>>)
    ELSE IF type = "sequence" THEN
        AddAll(<<>>, <<answer + 2, answer - 2, answer + 1>>)
    ELSE IF type = "probability" THEN
        AddAll(<<>>, <<answer * 2, Max(1, answer \div 2), answer + 1>>)
    ELSE IF type \in {"logical_condition", "backtrack_basic"} THEN
        AddAll(AddAll(<<>>, <<answer + 1, Max(1, answer - 1), answer * 2>>),
               IF answer % 2 = 0 THEN <<answer \div 2>> ELSE <<>>)
    ELSE
        AddAll(<<>>, <<IF answer > 0 THEN 0 - answer
                       ELSE IF Abs(answer) # 0 THEN Abs(answer) ELSE 1,
                       answer + 1, Max(1, answer - 1)>>)

\* Array.from(pool).filter(d => d !== answer && Number.isInteger(d) && !Number.isNaN(d))
CognitiveFilter(pool, answer) == SelectSeq(pool, LAMBDA d : d # answer)

\* while (selectedDistractors.size < 4) { candidate1 = answer + offset;
\* candidate2 = Math.max(1, answer - offset); ...; offset++ }
CognitiveSecond(a1, answer, offset) ==
    AddIf(Len(a1) < 4 /\ Max(1, answer - offset) # answer, a1, Max(1, answer - offset))

\* one pass of the body of the fill loop, before offset++; candidate1 differs
\* from answer since offset >= 1
CognitiveBody(selected, answer, offset) ==
    CognitiveSecond(SetAdd(selected, answer + offset), answer, offset)

RECURSIVE CognitiveFill(_, _, _)
CognitiveFill(selected, answer, offset) ==
    IF Len(selected) >= 4 THEN selected
    ELSE CognitiveFill(CognitiveBody(selected, answer, offset), answer, FillAdvance(offset))

\* selectedDistractors after the take and fill loops, then [answer, ...].sort
CognitiveFinal(sh, answer) ==
    [choices |-> SortAsc(<<answer>> \o CognitiveFill(TakeFour(sh.arr, 1, <<>>), answer, 1)),
     rng |-> sh.rng]

\* mutant of generateCognitiveDistractors: the distractors are not filtered
\* against the answer
generateCognitiveDistractorsUnfiltered(answer, s, type) ==
    CognitiveFinal(ShuffleAll(CognitivePool(answer, type), s), answer)

\* the sorted choices and the state word of the closure afterwards
generateCognitiveDistractors(answer, s, type) ==
    CognitiveFinal(ShuffleAll(CognitiveFilter(CognitivePool(answer, type), answer), s), answer)

\* ------------------------------------------------------------------------
\* Middle-school question generators.  Each takes the state word of the rng
\* closure and returns latex (a template tag and the values it displays),
\* answer, isInteger, type, cognitiveType, level and the state word afterwards.
\* ------------------------------------------------------------------------
MiddlePartial(tpl, args, answer, type, cognitiveType, level, s) ==
    [latex |-> [tpl |-> tpl, args |-> args], isInteger |-> TRUE, answer |-> answer,
     type |-> type, cognitiveType |-> cognitiveType, level |-> level, rng |-> s]

\* [0]
QuadrantPartial(x, y, s) ==
    MiddlePartial("quadrant", <<x, y>>,
                  IF x > 0 /\ y > 0 THEN 1 ELSE IF x < 0 /\ y > 0 THEN 2
                  ELSE IF x < 0 /\ y < 0 THEN 3 ELSE IF x > 0 /\ y < 0 THEN 4 ELSE 0,
                  "quadrant", "reflex", 1, s)

genQuadrant(s) == QuadrantPartial(SignedRnd(s, 5), SignedRnd(Adv(s, 2), 5), Adv(s, 4))

\* [1]
SignIntegerPartial(a, b, s) ==
    MiddlePartial("sign_integer", <<a, b>>, a + b, "sign_integer", "reflex", 1, s)

genSignInteger(s) == SignIntegerPartial(SignedRnd(s, 9), SignedRnd(Adv(s, 2), 9), Adv(s, 4))

\* [2]
ExponentBasicPartial(base, e1, e2, s) ==
    MiddlePartial("exponent_basic", <<base, e1, e2>>, e1 + e2, "exponent_basic",
                  "pattern", 2, s)

genExponentBasic(s) ==
    ExponentBasicPartial(<<2, 3, 5, 7>>[Rnd(Adv(s, 1), 4) + 1], Rnd(Adv(s, 2), 4) + 2,
                         Rnd(Adv(s, 3), 4) + 2, Adv(s, 3))

\* [3]
LinearEqPartial(a, x, b, s) ==
    MiddlePartial("linear_eq", <<a, b, a * x + b>>, x, "linear_eq", "compute", 2, s)

genLinearEq(s) ==
    LinearEqPartial(Rnd(Adv(s, 1), 4) + 2, SignedRnd(Adv(s, 1), 5), Rnd(Adv(s, 4), 10) + 1,
                    Adv(s, 4))

\* [4] while (p1 === p2) p2 = primes[Math.floor(rng() * primes.length)]
middlePrimes == <<2, 3, 5, 7>>

RECURSIVE DivisorRedraw(_, _, _)
DivisorRedraw(p1, p2, s) ==
    IF p1 # p2 THEN [p2 |-> p2, rng |-> s]
    ELSE DivisorRedraw(p1, middlePrimes[Rnd(RngAdvance(s), 4) + 1], RngAdvance(s))

DivisorCountPartial(p1, p2, e1, e2, s) ==
    MiddlePartial("divisor_count", <<p1, e1, p2, e2>>, (e1 + 1) * (e2 + 1),
                  "divisor_count", "pattern", 2, s)

DivisorExponents(p1, second) ==
    DivisorCountPartial(p1, second.p2, Rnd(Adv(second.rng, 1), 3) + 1,
                        Rnd(Adv(second.rng, 2), 3) + 1, Adv(second.rng, 2))

DivisorPrimes(p1, s) ==
    DivisorExponents(p1, DivisorRedraw(p1, middlePrimes[Rnd(Adv(s, 1), 4) + 1], Adv(s, 1)))

genDivisorCount(s) == DivisorPrimes(middlePrimes[Rnd(Adv(s, 1), 4) + 1], Adv(s, 1))

\* [5] coin is the outcome of Math.random() > 0.5, read when den === 1
FiniteDecimalPartial(num, den, isFinite, s) ==
    MiddlePartial("finite_decimal", <<num, den>>, IF isFinite THEN 1 ELSE 2,
                  "finite_decimal", "sense", 2, s)

\* den = 2 ** twos * 5 ** fives; if (den === 1) den = Math.random() > 0.5 ? 2 : 5
FiniteDen(twos, fives, coin) ==
    IF Pow(2, twos) * Pow(5, fives) = 1 THEN (IF coin THEN 2 ELSE 5)
    ELSE Pow(2, twos) * Pow(5, fives)

FiniteCase(num, den, mult, s) == FiniteDecimalPartial(num * mult, den * mult, TRUE, s)

\* while (num % badPrime === 0) num++
RECURSIVE SkipMultiples(_, _)
SkipMultiples(num, badPrime) ==
    IF num % badPrime = 0 THEN SkipMultiples(num + 1, badPrime) ELSE num

InfiniteCase(num, twos, badPrime, s) ==
    FiniteDecimalPartial(SkipMultiples(num, badPrime), Pow(2, twos) * badPrime, FALSE, s)

genFiniteDecimal(s, coin) ==
    IF GtHalf(RngOut(Adv(s, 1)))
    THEN FiniteCase(Rnd(Adv(s, 2), 9) + 1,
                    FiniteDen(Rnd(Adv(s, 3), 3), Rnd(Adv(s, 4), 3), coin),
                    <<3, 7>>[Rnd(Adv(s, 5), 2) + 1], Adv(s, 5))
    ELSE InfiniteCase(Rnd(Adv(s, 2), 9) + 1, Rnd(Adv(s, 3), 2),
                      <<3, 7, 11>>[Rnd(Adv(s, 4), 3) + 1], Adv(s, 4))

\* [6]
TriangleOuterPartial(a, b, s) ==
    MiddlePartial("triangle_outer", <<a, b>>, a + b, "triangle_outer", "geometry", 1, s)

genTriangleOuter(s) ==
    TriangleOuterPartial((Rnd(Adv(s, 1), 5) + 3) * 10, (Rnd(Adv(s, 2), 4) + 2) * 10, Adv(s, 2))

\* [7]
SumOf(arr) == arr[1] + arr[2] + arr[3]

\* if (remainder !== 0) arr[1] += 3 - remainder
MeanAdjust(arr) ==
    IF SumOf(arr) % 3 # 0 THEN [arr EXCEPT ![2] = arr[2] + (3 - (SumOf(arr) % 3))] ELSE arr

MeanPartial(arr, s) ==
    MiddlePartial("mean", arr, SumOf(arr) \div 3, "mean_median", "compute", 3, s)

MedianPartial(arr, n2, s) ==
    MiddlePartial("median", arr, n2, "mean_median", "compute", 3, s)

MeanMedianShuffled(isMean, n2, sh) ==
    IF isMean THEN MeanPartial(MeanAdjust(sh.arr), sh.rng) ELSE MedianPartial(sh.arr, n2, sh.rng)

MeanMedianThird(isMean, n1, n2, n3, s) ==
    MeanMedianShuffled(isMean, n2, Shuffle(<<n1, n2, n3>>, 2, s))

MeanMedianSecond(isMean, n1, n2, s) ==
    MeanMedianThird(isMean, n1, n2, n2 + Rnd(Adv(s, 4), 5) + 1, Adv(s, 4))

MeanMedianFirst(isMean, n1, s) ==
    MeanMedianSecond(isMean, n1, n1 + Rnd(Adv(s, 3), 5) + 1, s)

genMeanMedian(s) == MeanMedianFirst(GtHalf(RngOut(Adv(s, 1))), Rnd(Adv(s, 2), 10) + 1, s)

\* [8]
scenarioAns == <<12, 3, 6, 12>>

ProbabilityPartial(k, s) ==
    MiddlePartial("probability", <<k>>, scenarioAns[k], "probability", "structure", 4, s)

genProbability(s) == ProbabilityPartial(Rnd(Adv(s, 1), 4) + 1, Adv(s, 1))

\* [9] do { ... } while (!Number.isInteger(slope) || slope === 0)
RECURSIVE genLinearSlope(_)
LinearSlopePartial(x1, x2, slope, y1, s) ==
    IF slope = 0 THEN genLinearSlope(s)
    ELSE MiddlePartial("linear_slope", <<x1, y1, x2, y1 + slope * (x2 - x1)>>, slope,
                       "linear_slope", "think", 3, s)

LinearSlopeSecond(x1, dx, slope, y1, s) == LinearSlopePartial(x1, x1 + dx, slope, y1, s)

genLinearSlope(s) ==
    LinearSlopeSecond(Rnd(Adv(s, 1), 5), Rnd(Adv(s, 2), 3) + 1, SignedRnd(Adv(s, 2), 3),
                      Rnd(Adv(s, 5), 5), Adv(s, 5))

\* [10]
FactorizationPartial(r1, r2, s) ==
    IF Abs(r1) = Abs(r2)
    THEN MiddlePartial("perfect_square", <<IF r1 > 0 THEN 1 ELSE 0, 2 * Abs(r1)>>,
                       Abs(r1) * Abs(r1), "factorization", "pattern", 3, s)
    ELSE MiddlePartial("factorization", <<r1 * r2, r1, r2>>, r1 + r2,
                       "factorization", "pattern", 3, s)

genFactorization(s) == FactorizationPartial(SignedRnd(s, 5), SignedRnd(Adv(s, 2), 5), Adv(s, 4))

\* [11] while (root1 === root2) root2 = ...
RECURSIVE RootRedraw(_, _, _)
RootRedraw(root1, root2, s) ==
    IF root1 # root2 THEN [root2 |-> root2, rng |-> s]
    ELSE RootRedraw(root1, SignedRnd(s, 5), Adv(s, 2))

QuadraticRootsPartial(root1, root2, askSum, s) ==
    MiddlePartial("quadratic_roots", <<0 - (root1 + root2), root1 * root2,
                                       IF askSum THEN 1 ELSE 0>>,
                  IF askSum THEN root1 + root2 ELSE root1 * root2,
                  "quadratic_roots", "think", 4, s)

QuadraticRootsAsk(root1, second) ==
    QuadraticRootsPartial(root1, second.root2, GtHalf(RngOut(Adv(second.rng, 1))),
                          Adv(second.rng, 1))

QuadraticRootsSecond(root1, s) ==
    QuadraticRootsAsk(root1, RootRedraw(root1, SignedRnd(s, 5), Adv(s, 2)))

genQuadraticRoots(s) == QuadraticRootsSecond(SignedRnd(s, 5), Adv(s, 2))

\* [12]
QuadraticVertexPartial(a, p, q, askX, s) ==
    MiddlePartial("quadratic_vertex", <<a, 0 - p, q, IF askX THEN 1 ELSE 0>>,
                  IF askX THEN p ELSE q, "quadratic_vertex", "think", 4, s)

genQuadraticVertex(s) ==
    QuadraticVertexPartial(SignedRnd(s, 3), SignedRnd(Adv(s, 2), 4), SignedRnd(Adv(s, 4), 5),
                           GtHalf(RngOut(Adv(s, 7))), Adv(s, 7))

\* [13]
SequencePartial(a1, ratio, step, s) ==
    MiddlePartial("sequence", <<a1, a1 * ratio + step, (a1 * ratio + step) * ratio + step>>,
                  ((a1 * ratio + step) * ratio + step) * ratio + step,
                  "sequence", "inference", 2, s)

genSequence(s) ==
    IF GtHalf(RngOut(Adv(s, 1)))
    THEN SequencePartial(Rnd(Adv(s, 2), 10) + 1, 1,
                         (Rnd(Adv(s, 3), 5) + 2) * Sign(Adv(s, 4)), Adv(s, 4))
    ELSE SequencePartial(Rnd(Adv(s, 5), 3) + 1,
                         (Rnd(Adv(s, 3), 2) + 2) * Sign(Adv(s, 4)), 0, Adv(s, 5))

\* [14] the latex shows the three terms that are not asked for
Without(arr, k) == SubSeq(arr, 1, k - 1) \o SubSeq(arr, k + 1, Len(arr))

ProportionPartial(a, b, mult, missingIdx, s) ==
    MiddlePartial("proportion",
                  <<missingIdx>> \o Without(<<a, b, a * mult, b * mult>>, missingIdx + 1),
                  <<a, b, a * mult, b * mult>>[missingIdx + 1],
                  "proportion", "sense", 3, s)

genProportion(s) ==
    ProportionPartial(Rnd(Adv(s, 1), 5) + 2, Rnd(Adv(s, 2), 5) + 2, Rnd(Adv(s, 3), 4) + 2,
                      Rnd(Adv(s, 4), 4), Adv(s, 4))

\* [15] the nine expressions are numbered: rationals 1..5, irrationals 11..14
rationals == <<1, 2, 3, 4, 5>>
irrationals == <<11, 12, 13, 14>>

\* options.indexOf(v) + 1
IndexOf(arr, v) == CHOOSE k \in 1..Len(arr) : arr[k] = v

IrrationalPartial(isAsk, pickedCorrect, options) ==
    MiddlePartial(IF isAsk THEN "irrational" ELSE "rational", options.arr,
                  IndexOf(options.arr, pickedCorrect), "irrational", "judgment", 4,
                  options.rng)

IrrationalOptions(isAsk, pickedWrongs, pickedCorrect, s, engine) ==
    IrrationalPartial(isAsk, pickedCorrect,
                      RandomSort(pickedWrongs \o <<pickedCorrect>>, s, engine))

IrrationalPick(isAsk, correctSet, sorted, engine) ==
    IrrationalOptions(isAsk, SubSeq(sorted.arr, 1, 3),
                      correctSet[Rnd(Adv(sorted.rng, 1), Len(correctSet)) + 1],
                      Adv(sorted.rng, 1), engine)

IrrationalAsk(isAsk, s, engine) ==
    IrrationalPick(isAsk, IF isAsk THEN irrationals ELSE rationals,
                   RandomSort(IF isAsk THEN rationals ELSE irrationals, s, engine), engine)

genIrrational(s, engine) == IrrationalAsk(GtHalf(RngOut(Adv(s, 1))), Adv(s, 1), engine)

\* [16] the six options are numbered by their position in the options array
correctOpts == <<2, 5>>
wrongOpts == <<0, 1, 3, 4>>

InequalityPartial(pickedCorrect, finalOptions) ==
    MiddlePartial("inequality", finalOptions.arr, IndexOf(finalOptions.arr, pickedCorrect),
                  "inequality", "judgment", 3, finalOptions.rng)

InequalityFinal(pickedCorrect, sorted, engine) ==
    InequalityPartial(pickedCorrect,
                      RandomSort(SubSeq(sorted.arr, 1, 3) \o <<pickedCorrect>>, sorted.rng,
                                 engine))

genInequality(s, engine) ==
    InequalityFinal(correctOpts[Rnd(Adv(s, 1), 2) + 1],
                    RandomSort(wrongOpts, Adv(s, 1), engine), engine)

\* [17] while (a === b) b = Math.floor(rng() * 4) + 2
RECURSIVE SimilarityRedraw(_, _, _)
SimilarityRedraw(a, b, s) ==
    IF a # b THEN [b |-> b, rng |-> s]
    ELSE SimilarityRedraw(a, Rnd(RngAdvance(s), 4) + 2, RngAdvance(s))

SimilarityPartial(isArea, a, b, s) ==
    MiddlePartial(IF isArea THEN "similarity_area" ELSE "similarity_volume",
                  <<a, b, IF isArea THEN a * a ELSE a * a * a>>,
                  IF isArea THEN b * b ELSE b * b * b, "similarity", "geometry", 4, s)

SimilaritySecond(isArea, a, second) == SimilarityPartial(isArea, a, second.b, second.rng)

SimilarityFirst(isArea, a, s) ==
    SimilaritySecond(isArea, a, SimilarityRedraw(a, Rnd(Adv(s, 3), 4) + 2, Adv(s, 3)))

genSimilarity(s) == SimilarityFirst(GtHalf(RngOut(Adv(s, 1))), Rnd(Adv(s, 2), 3) + 2, s)

\* [18]
BacktrackPartial(x, addVal, mulVal, isMulFirst, s) ==
    MiddlePartial(IF isMulFirst THEN "backtrack_mul_first" ELSE "backtrack_add_first",
                  <<mulVal, addVal,
                    IF isMulFirst THEN (x * mulVal) + addVal ELSE (x + addVal) * mulVal>>,
                  x, "backtrack_basic", "backtrack", 3, s)

genBacktrackBasic(s) ==
    BacktrackPartial(Rnd(Adv(s, 1), 10) + 2, SignedRnd(Adv(s, 1), 5), Rnd(Adv(s, 4), 3) + 2,
                     GtHalf(RngOut(Adv(s, 5))), Adv(s, 5))

\* [19] for (i = start; i <= end; i++) if (i % 2 === 0 && i % 3 === 0) count++
LogicalConditionPartial(start, end, s) ==
    MiddlePartial("logical_condition", <<start, end>>,
                  Cardinality({k \in start..end : k % 2 = 0 /\ k % 3 = 0}),
                  "logical_condition", "logical", 4, s)

LogicalConditionEnd(start, more, s) == LogicalConditionPartial(start, start + more + 15, s)

genLogicalCondition(s) ==
    LogicalConditionEnd(Rnd(Adv(s, 1), 10) + 10, Rnd(Adv(s, 2), 10), Adv(s, 2))

\* [20]
triplets == <<<<3, 4, 5>>, <<5, 12, 13>>, <<6, 8, 10>>, <<8, 15, 17>>>>

PythagorasPartial(t, isHypotenuse, s) ==
    IF isHypotenuse
    THEN MiddlePartial("pythagoras_c", <<t[1], t[2]>>, t[3], "pythagoras_svg", "think", 4, s)
    ELSE MiddlePartial("pythagoras_a", <<t[2], t[3]>>, t[1], "pythagoras_svg", "think", 4, s)

genPythagorasSvg(s) ==
    PythagorasPartial(triplets[Rnd(Adv(s, 1), 4) + 1], GtHalf(RngOut(Adv(s, 2))), Adv(s, 2))

\* [21] terms 0 and 1 have val 0.5 and an even coefficient, the others val 1
SpecialAnglePartial(term, c1, s) ==
    MiddlePartial("special_angle", <<c1, term>>, IF term < 2 THEN c1 \div 2 ELSE c1,
                  "special_angle_fever", "reflex", 5, s)

SpecialAngleCoeff(term, k, s) ==
    SpecialAnglePartial(term, IF term < 2 THEN 2 * (k + 1) ELSE k + 1, s)

genSpecialAngleFever(s) == SpecialAngleCoeff(Rnd(Adv(s, 1), 5), Rnd(Adv(s, 2), 3), Adv(s, 2))

\* [22]
InscribedAnglePartial(inscribed, askCenter, s) ==
    IF askCenter
    THEN MiddlePartial("inscribed_center", <<inscribed>>, inscribed * 2,
                       "inscribed_angle_svg", "reflex", 5, s)
    ELSE MiddlePartial("inscribed_inscribed", <<inscribed * 2>>, inscribed,
                       "inscribed_angle_svg", "reflex", 5, s)

genInscribedAngleSvg(s) ==
    InscribedAnglePartial((Rnd(Adv(s, 1), 5) + 3) * 10, GtHalf(RngOut(Adv(s, 2))), Adv(s, 2))

\* ------------------------------------------------------------------------
\* generateMiddleQuestion
\* ------------------------------------------------------------------------
NumGenerators == 23

\* generators[g](rng), g 0-based; engine is the sort algorithm of the runtime
\* and coin the outcome of Math.random() > 0.5 should the generator read it
RunMiddleGenerator(g, s, engine, coin) ==
    CASE g = 0 -> genQuadrant(s)
      [] g = 1 -> genSignInteger(s)
      [] g = 2 -> genExponentBasic(s)
      [] g = 3 -> genLinearEq(s)
      [] g = 4 -> genDivisorCount(s)
      [] g = 5 -> genFiniteDecimal(s, coin)
      [] g = 6 -> genTriangleOuter(s)
      [] g = 7 -> genMeanMedian(s)
      [] g = 8 -> genProbability(s)
      [] g = 9 -> genLinearSlope(s)
      [] g = 10 -> genFactorization(s)
      [] g = 11 -> genQuadraticRoots(s)
      [] g = 12 -> genQuadraticVertex(s)
      [] g = 13 -> genSequence(s)
      [] g = 14 -> genProportion(s)
      [] g = 15 -> genIrrational(s, engine)
      [] g = 16 -> genInequality(s, engine)
      [] g = 17 -> genSimilarity(s)
      [] g = 18 -> genBacktrackBasic(s)
      [] g = 19 -> genLogicalCondition(s)
      [] g = 20 -> genPythagorasSvg(s)
      [] g = 21 -> genSpecialAngleFever(s)
      [] g = 22 -> genInscribedAngleSvg(s)

\* generators.filter(g => allowedTypes.includes(g(rng).cognitiveType)): every
\* generator is run once on the shared closure, in array order
RECURSIVE FilterGenerators(_, _, _, _, _, _)
FilterKeep(g, kept, dummy, allowedTypes, engine, coin) ==
    IF dummy.cognitiveType \in allowedTypes
    THEN FilterGenerators(g + 1, Append(kept, g), dummy.rng, allowedTypes, engine, coin)
    ELSE FilterGenerators(g + 1, kept, dummy.rng, allowedTypes, engine, coin)

FilterGenerators(g, kept, s, allowedTypes, engine, coin) ==
    IF g >= NumGenerators THEN [available |-> kept, rng |-> s]
    ELSE FilterKeep(g, kept, RunMiddleGenerator(g, s, engine, coin), allowedTypes, engine,
                    coin)

AllGenerators == [g \in 1..NumGenerators |-> g - 1]

\* if (available.length === 0) available = generators
OrAllGenerators(filtered) ==
    [available |-> IF filtered.available = <<>> THEN AllGenerators ELSE filtered.available,
     rng |-> filtered.rng]

\* allowedTypes is a set here; the empty set stands for an absent or empty array
MiddleAvailable(s, allowedTypes, engine, coin) ==
    IF allowedTypes = {} THEN [available |-> AllGenerators, rng |-> s]
    ELSE OrAllGenerators(FilterGenerators(0, <<>>, s, allowedTypes, engine, coin))

MiddleMaxAttempts == 50

\* for (attempts = 0; attempts < 50; attempts++) { ...; if (Number.isInteger(
\* partial.answer)) break }; partial keeps the last candidate when none breaks,
\* so it is never null after the loop and the failsafe assignment never runs
RECURSIVE MiddleSelectLoop(_, _, _, _, _)
MiddleSelectCheck(partial, attempts, available, engine, coin) ==
    IF partial.isInteger \/ attempts + 1 >= MiddleMaxAttempts THEN partial
    ELSE MiddleSelectLoop(partial.rng, attempts + 1, available, engine, coin)

MiddleSelectLoop(s, attempts, available, engine, coin) ==
    MiddleSelectCheck(RunMiddleGenerator(available[Rnd(RngAdvance(s), Len(available)) + 1],
                                         RngAdvance(s), engine, coin),
                      attempts, available, engine, coin)

MiddleSelect(av, engine, coin) == MiddleSelectLoop(av.rng, 0, av.available, engine, coin)

\* "m-" + seed + "-" + index
MakeMiddleId(seed, index) == <<109, 45>> \o seed \o <<45>> \o Decimal(index)

MiddleQuestionRecord(seed, index, partial, made) ==
    [id |-> MakeMiddleId(seed, index), latex |-> partial.latex, answer |-> partial.answer,
     type |-> partial.type, cognitiveType |-> partial.cognitiveType,
     level |-> partial.level, choices |-> made.choices]

MiddleWithChoices(seed, index, partial) ==
    MiddleQuestionRecord(seed, index, partial,
                         generateCognitiveDistractors(partial.answer, partial.rng,
                                                      partial.type))

generateMiddleQuestion(seed, index, allowedTypes, engine, coin) ==
    MiddleWithChoices(seed, index,
                      MiddleSelect(MiddleAvailable(hashSeed(QuestionId(seed, index)),
                                                   allowedTypes, engine, coin),
                                   engine, coin))

\* ------------------------------------------------------------------------
\* Session tokens (lib/token) and the in-memory leaderboard
\* ------------------------------------------------------------------------
\* `${seed}|${userId}|${expiresAt}`
TokenPayload(seed, userId, expiresAt) == seed \o <<124>> \o userId \o <<124>> \o expiresAt

\* the HMAC-SHA256 hex digest of a payload under SECRET: a value that is
\* determined by the payload and differs for different payloads
createToken(seed, userId, expiresAt) == [mac |-> TokenPayload(seed, userId, expiresAt)]

\* mutant of verifyToken: only the presence of a digest is checked
verifyTokenPresence(token, seed, userId, expiresAt) == token # [mac |-> <<>>]

verifyToken(token, seed, userId, expiresAt) == token = createToken(seed, userId, expiresAt)

\* a JSON score value: a number (kept in halves, twice = 2 * value), null,
\* a non-numeric string, or absent
Num(twice) == [kind |-> "number", twice |-> twice]
NullValue == [kind |-> "null", twice |-> 0]
TextValue == [kind |-> "string", twice |-> 0]
Undefined == [kind |-> "undefined", twice |-> 0]

\* ToNumber(v) is NaN
IsNaN(v) == v.kind \in {"string", "undefined"}

\* v > n and v < n for a JSON value v and an integer n
Gt(v, n) == ~IsNaN(v) /\ v.twice > 2 * n
Lt(v, n) == ~IsNaN(v) /\ v.twice < 2 * n

\* !v
Falsy(v) == v.kind \in {"undefined", "null"} \/ (v.kind = "number" /\ v.twice = 0)

\* a > b for two JSON values
GtValue(a, b) == ~IsNaN(a) /\ ~IsNaN(b) /\ a.twice > b.twice

\* InMemoryLeaderboard.addScore: existing = entries.get(userId) || 0
addScore(map, userId, score) ==
    LET existing == IF Falsy(map[userId]) THEN Num(0) ELSE map[userId]
    IN  IF GtValue(score, existing) THEN [map EXCEPT ![userId] = score] ELSE map

\* BlobLeaderboard.getData: the stored object, or {} when the blob is missing,
\* the response is not ok or the fetch throws
BlobGetData(blob, readOk) == IF readOk THEN blob ELSE [u \in DOMAIN blob |-> Undefined]

\* const existing = data[userId] || 0; if (score > existing) { data[userId] =
\* score; await this.saveData(data) }: the blob afterwards
BlobSave(blob, data, userId, score) ==
    IF GtValue(score, IF Falsy(data[userId]) THEN Num(0) ELSE data[userId])
    THEN [data EXCEPT ![userId] = score]
    ELSE blob

\* BlobLeaderboard.addScore
BlobAddScore(blob, userId, score, readOk) ==
    BlobSave(blob, BlobGetData(blob, readOk), userId, score)

\* RedisLeaderboard.addScore: ZADD key GT score member adds a new member and
\* raises the score of an existing one
RedisAddScore(zset, userId, score) ==
    IF zset[userId] = Undefined \/ GtValue(score, zset[userId])
    THEN [zset EXCEPT ![userId] = score]
    ELSE zset

\* ------------------------------------------------------------------------
\* Bounds of the model
\* ------------------------------------------------------------------------
MaxIndex == 2
MaxLevel == 5
MaxLog == 2
MaxNow == 2
MaxAnswer == 12
MaxCalls == 3

\* seed strings "a1" and "7f"
Seeds == { <<97, 49>>, <<55, 102>> }
Indices == 0..MaxIndex
\* 0 stands for any level outside 1..5
Levels == 0..MaxLevel
AllowedLists == { <<>>, <<"trig_basic">>, <<"diff", "exp">>,
                  <<"bogus">>, <<"int", "bogus", "seq">> }

\* user ids "u1" and "u2"
Users == { <<117, 49>>, <<117, 50>> }
\* levels a playing client records
PlayLevels == {1, 4}
\* the session lifetime (5 minutes) is the unit of time
SessionTTL == 1
PerQuestionMax == 1500

ScoreValues ==
    { Num(-2), Num(0), Num(1), NullValue, TextValue, Undefined }
    \cup { Num(2 * PerQuestionMax * k) : k \in 1..MaxLog }
    \cup { Num(2 * PerQuestionMax * k + 1) : k \in 1..MaxLog }

Faults == { "none", "noUserId", "noSeed", "noToken", "noLog", "noExpiresAt",
            "otherUser", "otherSeed", "laterExpiry", "forgedToken" }

NoArgs == [seed |-> <<>>, index |-> 0, level |-> 0, allowedTypes |-> <<>>]
NoQuestion == [id |-> <<>>, latex |-> [tpl |-> "", args |-> <<>>], isInteger |-> FALSE,
               answer |-> 0, type |-> NoType, choices |-> <<>>, attempts |-> 0,
               threw |-> FALSE]
NoToken == [mac |-> <<>>]
NoRequest == [userId |-> <<>>, seed |-> <<>>, token |-> NoToken, expiresAt |-> <<>>,
              score |-> Undefined, hasLog |-> FALSE, playedQuestions |-> <<>>]
NoResponse == [status |-> 0, error |-> ""]
EmptyEntries == [u \in Users |-> Undefined]

GenIdle ==
    /\ gpc = "idle"
    /\ gArgs = NoArgs
    /\ gq = NoQuestion
    /\ firstArgs = NoArgs
    /\ firstQ = NoQuestion
    /\ calls = 0

\* api/session: seed = generateSeed(), expiresAt = now + 5 min,
\* token = createToken(seed, userId, expiresAt); the session is issued at time 0
IssueSession(seed, userId) ==
    [seed |-> seed, userId |-> userId, expiresAt |-> Decimal(0 + SessionTTL),
     token |-> createToken(seed, userId, Decimal(0 + SessionTTL))]

SubmitIdle ==
    /\ log = <<>>
    /\ edited = FALSE
    /\ req = NoRequest
    /\ now = 0
    /\ pc = "client"
    /\ i = 0
    /\ maxPossibleScore = 0
    /\ verifiedCorrect = 0
    /\ passed = <<>>
    /\ resp = NoResponse
    /\ entries = EmptyEntries
    /\ added = <<>>

NoChoiceArgs == [isInteger |-> FALSE, answer |-> 0, rng |-> <<0, 0>>, type |-> ""]
NoChoices == [threw |-> FALSE, choices |-> <<>>, rng |-> <<0, 0>>]

ChoicesIdle ==
    /\ cpc = "idle"
    /\ cArgs = NoChoiceArgs
    /\ cOut = NoChoices

NoMiddleArgs == [seed |-> <<>>, index |-> 0, allowedTypes |-> {}]
NoMiddleQuestion == [id |-> <<>>, latex |-> [tpl |-> "", args |-> <<>>], answer |-> 0,
                     type |-> "", cognitiveType |-> "", level |-> 0, choices |-> <<>>]
NoDistractorArgs == [answer |-> 0, rng |-> <<0, 0>>, type |-> ""]

MiddleCallsIdle ==
    /\ mpc = "idle"
    /\ mArgs = NoMiddleArgs
    /\ mq = NoMiddleQuestion
    /\ mFirstQ = NoMiddleQuestion
    /\ dArgs = NoDistractorArgs
    /\ dOut = <<>>

MiddleIdle ==
    /\ sortEngine = "timsort"
    /\ MiddleCallsIdle

\* most addScore calls in flight at once
MaxOverlap == 2

NoOp == [pc |-> "idle", userId |-> << >>, score |-> Undefined, data |-> EmptyEntries]
NoOps == [c \in 1..MaxOverlap |-> NoOp]

LeaderboardIdle ==
    /\ lbImpl = "memory"
    /\ lbData = EmptyEntries
    /\ lbBest = EmptyEntries
    /\ lbCalls = 0
    /\ lbOps = NoOps

GAME_DURATION == 60

\* SuneungGame and its hooks right after the first render
GameIdle ==
    /\ gameScore = 0
    /\ gameCombo = 0
    /\ gameLevel = 1
    /\ timeLeft = GAME_DURATION
    /\ playedCount = 0
    /\ pendingNext = 0
    /\ thinkTicks = 0
    /\ wrongCount = 0
    /\ isGameOver = FALSE

\* the useState initial values of useGameSession; question -1 is null
HookInitialState ==
    [currentIndex |-> 0, question |-> -1, feedback |-> "null", isProcessing |-> FALSE]

HookIdle ==
    /\ hookState = HookInitialState
    /\ hookView = HookInitialState
    /\ playedLog = << >>
    /\ timers = << >>
    /\ taps = 0

\* the state of a game component after its first render, in tenths of a second
EndInitialState == [time |-> GAME_DURATION * 10, over |-> FALSE, feedback |-> FALSE]

EndIdle ==
    /\ endKind = "suneung"
    /\ endState = EndInitialState
    /\ endView = EndInitialState
    /\ endInterval = TRUE
    /\ endTimeouts = 0
    /\ endAnswers = 0
    /\ endCalls = 0

NoTriple == [seed |-> << >>, userId |-> << >>, expiresAt |-> << >>]

TokenIdle ==
    /\ tokenFor = NoTriple
    /\ tokenTry = NoTriple
    /\ tokenOk = "none"

\* most generateQuestion calls in progress at once
MaxCallers == 2

NoCall == [pc |-> "idle", args |-> NoArgs,
           sel |-> [partial |-> Hardcoded(<<0, 0>>), attempts |-> 0],
           q |-> NoQuestion, overlapped |-> FALSE]

InterleaveIdle ==
    /\ icalls = [c \in 1..MaxCallers |-> NoCall]
    /\ irng = [c \in 1..MaxCallers |-> <<0, 0>>]

\* no fill loop has been entered
NoFill == [kind |-> "none", answer |-> 0, selected |-> <<>>, offset |-> 0, pc |-> "idle"]

FillIdle == fill = NoFill

\* generateType2Question has not been called
NoDiffCall == [pc |-> "idle", attempts |-> 0, B |-> 0, C |-> 0, D |-> 0, a |-> 0, answer |-> 0]

DiffIdle == diffCall = NoDiffCall

\* no pair of requests has been handled
NoTwin == [pc |-> "idle"]

TwinIdle == twin = NoTwin

OtherIdle ==
    /\ ChoicesIdle /\ MiddleIdle /\ LeaderboardIdle /\ GameIdle /\ HookIdle /\ EndIdle
    /\ TokenIdle /\ InterleaveIdle /\ FillIdle /\ DiffIdle /\ TwinIdle

\* ------------------------------------------------------------------------
\* Calls of generateQuestion
\* ------------------------------------------------------------------------
\* a caller invokes generateQuestion(seed, index, level, allowedTypes)
Generate(seed, index, level, allowedTypes) ==
    /\ gpc = "idle"
    /\ gpc' = "called"
    /\ gArgs' = [seed |-> seed, index |-> index, level |-> level,
                 allowedTypes |-> allowedTypes]
    /\ gq' = generateQuestion(seed, index, level, allowedTypes)
    /\ firstArgs' = gArgs'
    /\ firstQ' = gq'
    /\ calls' = calls + 1
    /\ UNCHANGED <<svars, ovars>>

\* a second caller (another process, the server's replay) invokes
\* generateQuestion for the same seed and index
Regenerate(level, allowedTypes) ==
    /\ gpc = "called"
    /\ gpc' = "recalled"
    /\ gArgs' = [seed |-> firstArgs.seed, index |-> firstArgs.index, level |-> level,
                 allowedTypes |-> allowedTypes]
    /\ gq' = generateQuestion(firstArgs.seed, firstArgs.index, level, allowedTypes)
    /\ calls' = calls + 1
    /\ UNCHANGED <<firstArgs, firstQ>>
    /\ UNCHANGED <<svars, ovars>>

Init ==
    /\ GenIdle
    /\ SubmitIdle
    /\ OtherIdle
    /\ session = IssueSession(<<97, 49>>, <<117, 49>>)

Next ==
    \/ \E seed \in Seeds, index \in Indices, level \in Levels, allowedTypes \in AllowedLists :
          Generate(seed, index, level, allowedTypes)
    \/ \E level \in Levels, allowedTypes \in AllowedLists : Regenerate(level, allowedTypes)

Spec == Init /\ [][Next]_vars

\* ------------------------------------------------------------------------
\* The client's played-question log and the request it sends
\* ------------------------------------------------------------------------
\* an element of playedQuestions; isObject is FALSE for null; level 0 is absent
Entry(questionId, level, correct) ==
    [isObject |-> TRUE, questionId |-> questionId, level |-> level, correct |-> correct]
NullEntry == [isObject |-> FALSE, questionId |-> <<>>, level |-> 0, correct |-> FALSE]

\* useGameSession.submitAnswer on the question loaded for the current index:
\* the entry carries the id generateQuestion returned and the level it was asked with
ClientAnswer(level, correct) ==
    /\ pc = "client"
    /\ Len(log) < MaxLog
    /\ log' = Append(log, Entry(generateQuestion(session.seed, Len(log), level, <<>>).id,
                                level, correct))
    /\ UNCHANGED <<session, edited, req, now, pc, i, maxPossibleScore, verifiedCorrect,
                   passed, resp, entries, added>>
    /\ UNCHANGED <<gvars, ovars>>

\* the log is altered before it is sent: the questionId at position k is
\* replaced by the id of the next index, or the entry is replaced by null
Tamper(k, how) ==
    /\ pc = "client"
    /\ k \in 1..Len(log)
    /\ log[k].isObject
    /\ log' = [log EXCEPT ![k] =
                  IF how = "id"
                  THEN [@ EXCEPT !.questionId = QuestionId(session.seed, k)]
                  ELSE NullEntry]
    /\ edited' = TRUE
    /\ UNCHANGED <<session, req, now, pc, i, maxPossibleScore, verifiedCorrect,
                   passed, resp, entries, added>>
    /\ UNCHANGED <<gvars, ovars>>

OtherUser(userId) == CHOOSE u \in Users : u # userId
OtherSeed(seed) == CHOOSE sd \in Seeds : sd # seed

\* the JSON body of POST /api/submitScore; fault names the one field that
\* differs from what handleGameEnd sends
RequestBody(fault, score) ==
    [userId    |-> IF fault = "noUserId" THEN <<>>
                   ELSE IF fault = "otherUser" THEN OtherUser(session.userId)
                   ELSE session.userId,
     seed      |-> IF fault = "noSeed" THEN <<>>
                   ELSE IF fault = "otherSeed" THEN OtherSeed(session.seed)
                   ELSE session.seed,
     token     |-> IF fault = "noToken" THEN NoToken
                   ELSE IF fault = "forgedToken"
                   THEN createToken(session.seed, session.userId, <<>>)
                   ELSE session.token,
     expiresAt |-> IF fault = "noExpiresAt" THEN <<>>
                   ELSE IF fault = "laterExpiry" THEN Decimal(MaxNow + 1)
                   ELSE session.expiresAt,
     score     |-> score,
     hasLog    |-> fault # "noLog",
     playedQuestions |-> IF fault = "noLog" THEN <<>> ELSE log]

\* handleGameEnd: the request is sent and reaches the handler
Submit(fault, score) ==
    /\ pc = "client"
    /\ req' = RequestBody(fault, score)
    /\ pc' = "fields"
    /\ UNCHANGED <<session, log, edited, now, i, maxPossibleScore, verifiedCorrect,
                   passed, resp, entries, added>>
    /\ UNCHANGED <<gvars, ovars>>

\* ------------------------------------------------------------------------
\* POST /api/submitScore
\* ------------------------------------------------------------------------
Respond(status, error) ==
    /\ resp' = [status |-> status, error |-> error]
    /\ pc' = "done"

Pass(check, nextPc) ==
    /\ passed' = Append(passed, check)
    /\ pc' = nextPc
    /\ resp' = resp

\* 1. if (!userId || !seed || !token || score === undefined || !playedQuestions)
MissingFields(body) ==
    \/ body.userId = <<>>
    \/ body.seed = <<>>
    \/ body.token = NoToken
    \/ body.score.kind = "undefined"
    \/ ~body.hasLog

ValidateFields ==
    /\ pc = "fields"
    /\ IF MissingFields(req)
       THEN Respond(400, "Missing required fields") /\ passed' = passed
       ELSE Pass("fields", "expiresAt")
    /\ UNCHANGED <<session, log, edited, req, now, i, maxPossibleScore, verifiedCorrect,
                   entries, added>>
    /\ UNCHANGED <<gvars, ovars>>

\* 2. if (!expiresAt)
CheckExpiresAt ==
    /\ pc = "expiresAt"
    /\ IF req.expiresAt = <<>>
       THEN Respond(400, "Missing expiresAt") /\ passed' = passed
       ELSE Pass("expiresAt", "token")
    /\ UNCHANGED <<session, log, edited, req, now, i, maxPossibleScore, verifiedCorrect,
                   entries, added>>
    /\ UNCHANGED <<gvars, ovars>>

\* 3. if (!verifyToken(token, seed, userId, expiresAt))
VerifyTokenStep ==
    /\ pc = "token"
    /\ IF ~verifyToken(req.token, req.seed, req.userId, req.expiresAt)
       THEN Respond(403, "Invalid token") /\ passed' = passed
       ELSE Pass("token", "expiry")
    /\ UNCHANGED <<session, log, edited, req, now, i, maxPossibleScore, verifiedCorrect,
                   entries, added>>
    /\ UNCHANGED <<gvars, ovars>>

\* new Date(expiresAt).getTime(), for the decimal rendering of a time
RECURSIVE ParseTime(_, _)
ParseTime(str, acc) ==
    IF str = <<>> THEN acc ELSE ParseTime(Tail(str), 10 * acc + (Head(str) - 48))

\* new Date(expiresAt) < new Date()
Expired(expiresAt, t) == ParseTime(expiresAt, 0) < t

\* 4. token expiry; new Date() reads the clock, which shows t
CheckExpiry(t) ==
    /\ pc = "expiry"
    /\ now' = t
    /\ IF Expired(req.expiresAt, t)
       THEN Respond(403, "Session expired") /\ passed' = passed
       ELSE Pass("expiry", "replay")
    /\ UNCHANGED <<session, log, edited, req, i, maxPossibleScore, verifiedCorrect,
                   entries, added>>
    /\ UNCHANGED <<gvars, ovars>>

\* mutant of ReplayQuestion: the server counts positions from 1
ReplayQuestionFromOne(seed, k, played) ==
    generateQuestion(seed, k + 1, IF played.level = 0 THEN 1 ELSE played.level, <<>>)

\* const level = played.level || 1; const q = generateQuestion(seed, i, level)
\* k is the 0-based position
ReplayQuestion(seed, k, played) ==
    generateQuestion(seed, k, IF played.level = 0 THEN 1 ELSE played.level, <<>>)

\* mutant of IdMismatch: only the lengths of the two ids are compared
IdMismatchLength(played, q) == Len(played.questionId) # Len(q.id)

\* played.questionId !== q.id
IdMismatch(played, q) == played.questionId # q.id

\* mutant of EntryCeiling: only entries marked correct raise the ceiling
EntryCeilingIfCorrect(played) == IF played.correct THEN PerQuestionMax ELSE 0

\* maxPossibleScore += 1500, for every entry
EntryCeiling(played) == PerQuestionMax

\* 5. one iteration of the replay loop, or its exit
ReplayStep ==
    /\ pc = "replay"
    /\ IF i >= Len(req.playedQuestions)
       THEN /\ Pass("replay", "scoreMax")
            /\ UNCHANGED <<i, maxPossibleScore, verifiedCorrect>>
       ELSE LET played == req.playedQuestions[i + 1]
            IN  IF ~played.isObject
                THEN \* played.level throws; the catch block answers
                     /\ Respond(500, "Internal server error")
                     /\ UNCHANGED <<passed, i, maxPossibleScore, verifiedCorrect>>
                ELSE IF IdMismatch(played, ReplayQuestion(req.seed, i, played))
                THEN /\ Respond(403, "Question sequence mismatch")
                     /\ UNCHANGED <<passed, i, maxPossibleScore, verifiedCorrect>>
                ELSE /\ i' = i + 1
                     /\ verifiedCorrect' = IF played.correct THEN verifiedCorrect + 1
                                           ELSE verifiedCorrect
                     /\ maxPossibleScore' = maxPossibleScore + EntryCeiling(played)
                     /\ UNCHANGED <<passed, resp, pc>>
    /\ UNCHANGED <<session, log, edited, req, now, entries, added>>
    /\ UNCHANGED <<gvars, ovars>>

\* mutant of ScoreExceeds: the ceiling is never applied
ScoreExceedsNever(score, max) == FALSE

\* score > maxPossibleScore
ScoreExceeds(score, max) == Gt(score, max)

\* score < 0
ScoreNegative(score) == Lt(score, 0)

\* 6. score plausibility
CheckScoreMax ==
    /\ pc = "scoreMax"
    /\ IF ScoreExceeds(req.score, maxPossibleScore)
       THEN Respond(403, "Score exceeds maximum possible") /\ passed' = passed
       ELSE Pass("scoreMax", "scoreNegative")
    /\ UNCHANGED <<session, log, edited, req, now, i, maxPossibleScore, verifiedCorrect,
                   entries, added>>
    /\ UNCHANGED <<gvars, ovars>>

CheckScoreNegative ==
    /\ pc = "scoreNegative"
    /\ IF ScoreNegative(req.score)
       THEN Respond(403, "Invalid score") /\ passed' = passed
       ELSE Pass("scoreNegative", "persist")
    /\ UNCHANGED <<session, log, edited, req, now, i, maxPossibleScore, verifiedCorrect,
                   entries, added>>
    /\ UNCHANGED <<gvars, ovars>>

\* 7. await leaderboard.addScore(userId, score), then the success response
Persist ==
    /\ pc = "persist"
    /\ entries' = addScore(entries, req.userId, req.score)
    /\ added' = Append(added, <<req.userId, req.score>>)
    /\ Respond(200, "")
    /\ UNCHANGED <<session, log, edited, req, now, i, maxPossibleScore, verifiedCorrect,
                   passed>>
    /\ UNCHANGED <<gvars, ovars>>

SubmitInit ==
    /\ GenIdle
    /\ SubmitIdle
    /\ OtherIdle
    /\ \E seed \in Seeds : session = IssueSession(seed, <<117, 49>>)

SubmitNext ==
    \/ \E level \in PlayLevels, correct \in BOOLEAN : ClientAnswer(level, correct)
    \/ \E k \in 1..MaxLog, how \in {"id", "null"} : Tamper(k, how)
    \/ \E fault \in Faults, score \in ScoreValues : Submit(fault, score)
    \/ ValidateFields
    \/ CheckExpiresAt
    \/ VerifyTokenStep
    \/ \E t \in 0..MaxNow : CheckExpiry(t)
    \/ ReplayStep
    \/ CheckScoreMax
    \/ CheckScoreNegative
    \/ Persist

SpecSubmit == SubmitInit /\ [][SubmitNext]_vars

\* ------------------------------------------------------------------------
\* The handler of POST /api/submitScore as a function of the request body and
\* of the time t the clock shows: the response and the addScore calls made
\* ------------------------------------------------------------------------
Rejected(status, error) == [resp |-> [status |-> status, error |-> error], added |-> <<>>]

\* the replay loop from position k (0-based) with maxPossibleScore = max: the
\* response it ends with, or status 0 and the ceiling when it runs through
RECURSIVE ReplayLoop(_, _, _, _)
ReplayLoop(seed, playedQuestions, k, max) ==
    IF k >= Len(playedQuestions) THEN [status |-> 0, error |-> "", max |-> max]
    ELSE IF ~playedQuestions[k + 1].isObject
    THEN [status |-> 500, error |-> "Internal server error", max |-> max]
    ELSE IF IdMismatch(playedQuestions[k + 1], ReplayQuestion(seed, k, playedQuestions[k + 1]))
    THEN [status |-> 403, error |-> "Question sequence mismatch", max |-> max]
    ELSE ReplayLoop(seed, playedQuestions, k + 1, max + EntryCeiling(playedQuestions[k + 1]))

AfterReplay(body, replayed) ==
    IF replayed.status # 0 THEN Rejected(replayed.status, replayed.error)
    ELSE IF ScoreExceeds(body.score, replayed.max)
    THEN Rejected(403, "Score exceeds maximum possible")
    ELSE IF ScoreNegative(body.score) THEN Rejected(403, "Invalid score")
    ELSE [resp |-> [status |-> 200, error |-> ""], added |-> << <<body.userId, body.score>> >>]

POST(body, t) ==
    IF MissingFields(body) THEN Rejected(400, "Missing required fields")
    ELSE IF body.expiresAt = <<>> THEN Rejected(400, "Missing expiresAt")
    ELSE IF ~verifyToken(body.token, body.seed, body.userId, body.expiresAt)
    THEN Rejected(403, "Invalid token")
    ELSE IF Expired(body.expiresAt, t) THEN Rejected(403, "Session expired")
    ELSE AfterReplay(body, ReplayLoop(body.seed, body.playedQuestions, 0, 0))

\* values of the selectedAnswer and timeMs fields of a log entry
AnswerValues == {0, 7}
TimeValues == {0, 900}

\* the entry with its level, correct, selectedAnswer and timeMs fields replaced
WithFields(entry, level, correct, selectedAnswer, timeMs) ==
    IF entry.isObject
    THEN [isObject |-> TRUE, questionId |-> entry.questionId, level |-> level,
          correct |-> correct, selectedAnswer |-> selectedAnswer, timeMs |-> timeMs]
    ELSE entry

\* the log with the four fields of the entries at the positions in at replaced
ReplaceFields(playedQuestions, at, level, correct, selectedAnswer, timeMs) ==
    [k \in 1..Len(playedQuestions) |->
        IF k \in at
        THEN WithFields(playedQuestions[k], level, correct, selectedAnswer, timeMs)
        ELSE playedQuestions[k]]

\* the entry a client sends for position k (1-based): the one of an honest
\* game, one carrying the id of the next index, or null
TwinEntries(k) ==
    { Entry(QuestionId(session.seed, k - 1), 1, TRUE),
      Entry(QuestionId(session.seed, k), 1, TRUE),
      NullEntry }

TwinLogs ==
    {<<>>} \cup { <<e1>> : e1 \in TwinEntries(1) }
           \cup { <<e1, e2>> : e1 \in TwinEntries(1), e2 \in TwinEntries(2) }

TwinScores == { Num(-2), Num(1), Num(2 * PerQuestionMax), Num(2 * PerQuestionMax + 1) }

TwinBody(playedQuestions, score) ==
    [RequestBody("none", score) EXCEPT !.playedQuestions = playedQuestions]

TwinUnchanged == UNCHANGED <<gvars, svars, cvars, mvars, lvars, kvars, hvars, evars, tvars, ivars, fvars, dvars>>

\* the handler answers body and, from the same store and at the same time,
\* other
HandleBoth(body, other, t) ==
    /\ twin.pc = "idle"
    /\ twin' = [pc |-> "done", body |-> body, other |-> other,
                first |-> POST(body, t), second |-> POST(other, t)]
    /\ TwinUnchanged

TwinInit ==
    /\ GenIdle
    /\ SubmitIdle
    /\ session = IssueSession(<<97, 49>>, <<117, 49>>)
    /\ OtherIdle

TwinNext ==
    \E playedQuestions \in TwinLogs, score \in TwinScores, t \in {0, MaxNow},
       at \in SUBSET (1..2), level \in Levels, correct \in BOOLEAN,
       selectedAnswer \in AnswerValues, timeMs \in TimeValues :
        HandleBoth(TwinBody(playedQuestions, score),
                   TwinBody(ReplaceFields(playedQuestions, at, level, correct,
                                          selectedAnswer, timeMs), score),
                   t)

SpecTwin == TwinInit /\ [][TwinNext]_vars

\* ------------------------------------------------------------------------
\* Direct calls of generateCSATChoices
\* ------------------------------------------------------------------------
\* an answer argument: an integer (isInteger) or a value that is not one, a
\* fraction next to the integer, NaN or an infinity; the state word of the rng
\* closure passed in; the type tag
ChoiceInputs ==
    [isInteger : BOOLEAN, answer : (0 - 2)..MaxAnswer,
     rng : {<<0, 1>>, <<40000, 65535>>}, type : {"exp", "diff", "log", "generic"}]

\* generateCSATChoices(answer, rng, type)
CallChoices ==
    /\ cpc = "ready"
    /\ cpc' = "returned"
    /\ cOut' = generateCSATChoices(cArgs.isInteger, cArgs.answer, cArgs.rng, cArgs.type)
    /\ UNCHANGED <<cArgs, gvars, svars, mvars, lvars, kvars, hvars, evars, tvars, ivars, fvars, dvars, wvars>>

ChoicesInit ==
    /\ GenIdle
    /\ SubmitIdle
    /\ session = IssueSession(<<97, 49>>, <<117, 49>>)
    /\ cpc = "ready"
    /\ cArgs \in ChoiceInputs
    /\ cOut = NoChoices
    /\ MiddleIdle
    /\ LeaderboardIdle
    /\ GameIdle
    /\ HookIdle
    /\ EndIdle
    /\ TokenIdle
    /\ InterleaveIdle
    /\ FillIdle
    /\ DiffIdle
    /\ TwinIdle

ChoicesNext == CallChoices

SpecChoices == ChoicesInit /\ [][ChoicesNext]_vars

\* ------------------------------------------------------------------------
\* Calls of generateMiddleQuestion and of generateCognitiveDistractors
\* ------------------------------------------------------------------------
\* seed strings "a1", "1a" and "52"
MiddleSeeds == { <<97, 49>>, <<49, 97>>, <<53, 50>> }
MiddleAllowed == { {}, {"sense"}, {"reflex", "pattern"}, {"judgment", "think"}, {"bogus"} }

\* the type tags generateCognitiveDistractors has a branch for, and one it has not
TypeTags == { "quadrant", "sign_integer", "exponent_basic", "prime_factor", "linear_eq",
              "mean_median", "pythagoras_svg", "inscribed_angle_svg", "divisor_count",
              "quadratic_roots", "quadratic_vertex", "triangle_outer", "sequence",
              "probability", "logical_condition", "backtrack_basic", "irrational" }

\* a caller invokes generateMiddleQuestion(seed, index, allowedTypes); coin is
\* what Math.random() > 0.5 yields during the call
GenerateMiddle(seed, index, allowedTypes, coin) ==
    /\ mpc = "idle"
    /\ mpc' = "called"
    /\ mArgs' = [seed |-> seed, index |-> index, allowedTypes |-> allowedTypes]
    /\ mq' = generateMiddleQuestion(seed, index, allowedTypes, sortEngine, coin)
    /\ mFirstQ' = mq'
    /\ UNCHANGED <<sortEngine, dArgs, dOut, gvars, svars, cvars, lvars, kvars, hvars, evars, tvars, ivars, fvars, dvars, wvars>>

\* a second call with the same arguments
RegenerateMiddle(coin) ==
    /\ mpc = "called"
    /\ mpc' = "recalled"
    /\ mq' = generateMiddleQuestion(mArgs.seed, mArgs.index, mArgs.allowedTypes, sortEngine,
                                    coin)
    /\ UNCHANGED <<sortEngine, mArgs, mFirstQ, dArgs, dOut, gvars, svars, cvars, lvars, kvars, hvars, evars, tvars, ivars, fvars, dvars, wvars>>

\* generateCognitiveDistractors(answer, rng, type) called on its own
CallDistractors(answer, s, type) ==
    /\ mpc = "idle"
    /\ mpc' = "direct"
    /\ dArgs' = [answer |-> answer, rng |-> s, type |-> type]
    /\ dOut' = generateCognitiveDistractors(answer, s, type).choices
    /\ UNCHANGED <<sortEngine, mArgs, mq, mFirstQ, gvars, svars, cvars, lvars, kvars, hvars, evars, tvars, ivars, fvars, dvars, wvars>>

MiddleInit ==
    /\ GenIdle
    /\ SubmitIdle
    /\ ChoicesIdle
    /\ session = IssueSession(<<97, 49>>, <<117, 49>>)
    /\ sortEngine \in Engines
    /\ MiddleCallsIdle
    /\ LeaderboardIdle
    /\ GameIdle
    /\ HookIdle
    /\ EndIdle
    /\ TokenIdle
    /\ InterleaveIdle
    /\ FillIdle
    /\ DiffIdle
    /\ TwinIdle

MiddleNext ==
    \/ \E seed \in MiddleSeeds, index \in Indices, allowedTypes \in MiddleAllowed,
          coin \in BOOLEAN : GenerateMiddle(seed, index, allowedTypes, coin)
    \/ \E coin \in BOOLEAN : RegenerateMiddle(coin)
    \/ \E answer \in (0 - MaxAnswer)..MaxAnswer, s \in {<<0, 1>>, <<40000, 65535>>},
          type \in TypeTags : CallDistractors(answer, s, type)

SpecMiddle == MiddleInit /\ [][MiddleNext]_vars

\* ------------------------------------------------------------------------
\* A middle-mode session submitted to POST /api/submitScore
\* ------------------------------------------------------------------------
\* useMiddleGameSession.submitAnswer on the question loaded for the current
\* index: the entry carries currentQuestion.id and currentQuestion.level
MiddleEntry(q, correct) == Entry(q.id, q.level, correct)

ClientAnswerMiddle(allowedTypes, correct, coin) ==
    /\ pc = "client"
    /\ Len(log) < MaxLog
    /\ log' = Append(log, MiddleEntry(generateMiddleQuestion(session.seed, Len(log),
                                                             allowedTypes, sortEngine, coin),
                                      correct))
    /\ UNCHANGED <<session, edited, req, now, pc, i, maxPossibleScore, verifiedCorrect,
                   passed, resp, entries, added>>
    /\ UNCHANGED <<gvars, ovars>>

\* the allowedTypes loadQuestion passes: none, or softTypes during fever or recovery
MiddlePlayAllowed == { {}, {"reflex", "sense", "pattern", "inference"} }

\* scores a session of at most MaxLog answers can show
MiddleScores == { Num(0), Num(2 * 100), Num(2 * PerQuestionMax) }

MiddleSubmitInit ==
    /\ GenIdle
    /\ SubmitIdle
    /\ ChoicesIdle
    /\ MiddleCallsIdle
    /\ LeaderboardIdle
    /\ GameIdle
    /\ HookIdle
    /\ EndIdle
    /\ TokenIdle
    /\ InterleaveIdle
    /\ FillIdle
    /\ DiffIdle
    /\ TwinIdle
    /\ sortEngine \in Engines
    /\ \E seed \in MiddleSeeds : session = IssueSession(seed, <<117, 49>>)

\* middle/play handleGameEnd sends the session's own fields and the log
MiddleSubmitNext ==
    \/ \E allowedTypes \in MiddlePlayAllowed, correct \in BOOLEAN, coin \in BOOLEAN :
          ClientAnswerMiddle(allowedTypes, correct, coin)
    \/ \E score \in MiddleScores : Submit("none", score)
    \/ ValidateFields
    \/ CheckExpiresAt
    \/ VerifyTokenStep
    \/ \E t \in 0..MaxNow : CheckExpiry(t)
    \/ ReplayStep
    \/ CheckScoreMax
    \/ CheckScoreNegative
    \/ Persist

SpecMiddleSubmit == MiddleSubmitInit /\ [][MiddleSubmitNext]_vars

\* ------------------------------------------------------------------------
\* Calls of Leaderboard.addScore, one at a time
\* ------------------------------------------------------------------------
Implementations == {"memory", "blob", "redis"}
LeaderboardScores == { Num(2 * k) : k \in 0..MaxCalls }

\* the higher of the best score so far and a new one
BestOf(best, score) == IF best = Undefined \/ GtValue(score, best) THEN score ELSE best

\* await leaderboard.addScore(userId, score), run to completion; readOk tells
\* whether the fetch of the blob, if the call makes one, succeeds
AddScoreCall(userId, score, readOk) ==
    /\ lbCalls < MaxCalls
    /\ lbCalls' = lbCalls + 1
    /\ lbData' = CASE lbImpl = "memory" -> addScore(lbData, userId, score)
                   [] lbImpl = "blob" -> BlobAddScore(lbData, userId, score, readOk)
                   [] lbImpl = "redis" -> RedisAddScore(lbData, userId, score)
    /\ lbBest' = [lbBest EXCEPT ![userId] = BestOf(lbBest[userId], score)]
    /\ UNCHANGED <<lbImpl, lbOps, gvars, svars, cvars, mvars, kvars, hvars, evars, tvars, ivars, fvars, dvars, wvars>>

LeaderboardInit ==
    /\ GenIdle
    /\ SubmitIdle
    /\ ChoicesIdle
    /\ MiddleIdle
    /\ session = IssueSession(<<97, 49>>, <<117, 49>>)
    /\ lbImpl \in Implementations
    /\ lbData = EmptyEntries
    /\ lbBest = EmptyEntries
    /\ lbCalls = 0
    /\ lbOps = NoOps
    /\ GameIdle
    /\ HookIdle
    /\ EndIdle
    /\ TokenIdle
    /\ InterleaveIdle
    /\ FillIdle
    /\ DiffIdle
    /\ TwinIdle

LeaderboardNext ==
    \E userId \in Users, score \in LeaderboardScores, readOk \in BOOLEAN :
        AddScoreCall(userId, score, readOk)

SpecLeaderboard == LeaderboardInit /\ [][LeaderboardNext]_vars

\* ------------------------------------------------------------------------
\* addScore calls that overlap: every await of a call is a point where
\* another call can run.  The fetches of the blob succeed here.
\* ------------------------------------------------------------------------
\* "zscore" is the RedisLeaderboard of lib/redis.ts (zscore, then zadd),
\* "redis" the one that sends ZADD GT
OverlapImplementations == {"memory", "blob", "redis", "zscore"}

OverlapUnchanged == UNCHANGED <<lbImpl, lbCalls, gvars, svars, cvars, mvars, kvars, hvars, evars, tvars, ivars, fvars, dvars, wvars>>

\* a request handler calls leaderboard.addScore(userId, score); the call runs
\* up to its first await (InMemoryLeaderboard has none)
OverlapStart(c, userId, score) ==
    /\ lbOps[c].pc = "idle"
    /\ lbOps' = [lbOps EXCEPT ![c] =
                    [pc |-> IF lbImpl = "memory" THEN "done" ELSE "called",
                     userId |-> userId, score |-> score, data |-> EmptyEntries]]
    /\ lbData' = IF lbImpl = "memory" THEN addScore(lbData, userId, score) ELSE lbData
    /\ lbBest' = [lbBest EXCEPT ![userId] = BestOf(lbBest[userId], score)]
    /\ OverlapUnchanged

\* BlobLeaderboard: getData resolves; the call compares and, if the score is
\* higher than what it read, sets data[userId] and starts saveData
OverlapBlobRead(c) ==
    /\ lbImpl = "blob"
    /\ lbOps[c].pc = "called"
    /\ lbOps' = [lbOps EXCEPT ![c].data = BlobGetData(lbData, TRUE),
                              ![c].pc = IF BlobSave(lbData, lbData, lbOps[c].userId,
                                                    lbOps[c].score) = lbData
                                        THEN "done" ELSE "saving"]
    /\ UNCHANGED <<lbData, lbBest>>
    /\ OverlapUnchanged

\* BlobLeaderboard: put writes the object the call read, with its own entry set
OverlapBlobSave(c) ==
    /\ lbImpl = "blob"
    /\ lbOps[c].pc = "saving"
    /\ lbData' = BlobSave(lbData, lbOps[c].data, lbOps[c].userId, lbOps[c].score)
    /\ lbOps' = [lbOps EXCEPT ![c].pc = "done"]
    /\ UNCHANGED lbBest
    /\ OverlapUnchanged

\* RedisLeaderboard (ZADD GT): the server executes the command
OverlapZaddGT(c) ==
    /\ lbImpl = "redis"
    /\ lbOps[c].pc = "called"
    /\ lbData' = RedisAddScore(lbData, lbOps[c].userId, lbOps[c].score)
    /\ lbOps' = [lbOps EXCEPT ![c].pc = "done"]
    /\ UNCHANGED lbBest
    /\ OverlapUnchanged

\* RedisLeaderboard of lib/redis.ts: zscore resolves; current === null ||
\* score > parseFloat(current) decides whether zadd is sent
OverlapZscore(c) ==
    /\ lbImpl = "zscore"
    /\ lbOps[c].pc = "called"
    /\ lbOps' = [lbOps EXCEPT ![c].data = lbData,
                              ![c].pc = IF RedisAddScore(lbData, lbOps[c].userId,
                                                         lbOps[c].score) = lbData
                                        THEN "done" ELSE "saving"]
    /\ UNCHANGED <<lbData, lbBest>>
    /\ OverlapUnchanged

\* RedisLeaderboard of lib/redis.ts: the server executes the plain zadd
OverlapZadd(c) ==
    /\ lbImpl = "zscore"
    /\ lbOps[c].pc = "saving"
    /\ lbData' = [lbData EXCEPT ![lbOps[c].userId] = lbOps[c].score]
    /\ lbOps' = [lbOps EXCEPT ![c].pc = "done"]
    /\ UNCHANGED lbBest
    /\ OverlapUnchanged

OverlapInit ==
    /\ GenIdle
    /\ SubmitIdle
    /\ ChoicesIdle
    /\ MiddleIdle
    /\ session = IssueSession(<<97, 49>>, <<117, 49>>)
    /\ lbImpl \in OverlapImplementations
    /\ lbData = EmptyEntries
    /\ lbBest = EmptyEntries
    /\ lbCalls = 0
    /\ lbOps = NoOps
    /\ GameIdle
    /\ HookIdle
    /\ EndIdle
    /\ TokenIdle
    /\ InterleaveIdle
    /\ FillIdle
    /\ DiffIdle
    /\ TwinIdle

OverlapNext ==
    \E c \in 1..MaxOverlap :
        \/ \E userId \in Users, score \in LeaderboardScores : OverlapStart(c, userId, score)
        \/ OverlapBlobRead(c)
        \/ OverlapBlobSave(c)
        \/ OverlapZaddGT(c)
        \/ OverlapZscore(c)
        \/ OverlapZadd(c)

SpecOverlap == OverlapInit /\ [][OverlapNext]_vars

\* ------------------------------------------------------------------------
\* A SuneungGame session (SuneungGame, useGameSession, useGameTimer)
\* ------------------------------------------------------------------------
\* longest log the sessions explored reach
MaxEntries == 32
\* most timer ticks between two answers of the player; after the last answer
\* explored the player stops and the timer runs out
MaxThink == 1
\* most wrong answers in a session
MaxWrong == 1

\* the multiplier in tenths
getComboMultiplier(combo) ==
    IF combo >= 30 THEN 30
    ELSE IF combo >= 20 THEN 25
    ELSE IF combo >= 15 THEN 20
    ELSE IF combo >= 10 THEN 16
    ELSE IF combo >= 5 THEN 13
    ELSE 10

NoMilestone == [points |-> 0, time |-> 0]

getMilestoneBonus(combo) ==
    IF combo = 10 THEN [points |-> 500, time |-> 5]
    ELSE IF combo = 20 THEN [points |-> 1500, time |-> 8]
    ELSE IF combo = 30 THEN [points |-> 3000, time |-> 10]
    ELSE IF combo = 50 THEN [points |-> 5000, time |-> 12]
    ELSE NoMilestone

\* nextLevel of handleSessionCorrect
NextLevel(currentLevel, newCombo) == Max(currentLevel, (newCombo \div 10) + 1)

\* timeBonus of handleSessionCorrect, the milestone's time included
TimeBonus(nextLevel, newCombo) ==
    (IF nextLevel = 2 THEN 6
     ELSE IF nextLevel = 3 THEN 4
     ELSE IF nextLevel >= 4 THEN 3
     ELSE 8) + getMilestoneBonus(newCombo).time

\* points of handleSessionCorrect: Math.round(basePoints * comboMultiplier)
\* plus the milestone's points
CorrectPoints(time, newCombo) ==
    (((100 + (Max(0, time) * 10)) * getComboMultiplier(newCombo) + 5) \div 10)
        + getMilestoneBonus(newCombo).points

\* the interval callback of useGameTimer; at one second left it calls
\* onComplete, which is handleGameOver
TimerTick ==
    /\ ~isGameOver
    /\ IF timeLeft <= 1
       THEN timeLeft' = 0 /\ isGameOver' = TRUE
       ELSE timeLeft' = timeLeft - 1 /\ isGameOver' = isGameOver
    /\ thinkTicks' = Min(MaxThink, thinkTicks + 1)
    /\ UNCHANGED <<gameScore, gameCombo, gameLevel, playedCount, pendingNext, wrongCount>>
    /\ UNCHANGED <<gvars, svars, cvars, mvars, lvars, hvars, evars, tvars, ivars, fvars, dvars, wvars>>

\* a tick in a session of a fast player
GameTick ==
    /\ thinkTicks < MaxThink \/ playedCount = MaxEntries
    /\ TimerTick

\* the player can tap a choice: a question is shown without feedback
CanAnswer ==
    /\ ~isGameOver
    /\ pendingNext = 0
    /\ playedCount < MaxEntries

\* submitAnswer with the right choice, and handleSessionCorrect
GameCorrect ==
    /\ CanAnswer
    /\ playedCount' = playedCount + 1
    /\ gameCombo' = gameCombo + 1
    /\ pendingNext' = NextLevel(gameLevel, gameCombo + 1)
    /\ timeLeft' = Min(GAME_DURATION,
                       Max(0, timeLeft + TimeBonus(NextLevel(gameLevel, gameCombo + 1),
                                                   gameCombo + 1)))
    /\ gameScore' = gameScore + CorrectPoints(timeLeft, gameCombo + 1)
    /\ thinkTicks' = 0
    /\ UNCHANGED <<gameLevel, wrongCount, isGameOver>>
    /\ UNCHANGED <<gvars, svars, cvars, mvars, lvars, hvars, evars, tvars, ivars, fvars, dvars, wvars>>

\* submitAnswer with a wrong choice, and handleSessionWrong
GameWrong ==
    /\ CanAnswer
    /\ wrongCount < MaxWrong
    /\ wrongCount' = wrongCount + 1
    /\ playedCount' = playedCount + 1
    /\ gameCombo' = 0
    /\ pendingNext' = gameLevel
    /\ timeLeft' = Max(0, timeLeft - (5 + (gameCombo \div 10) * 2))
    /\ gameScore' = Max(0, gameScore - Min(500, gameCombo * 20))
    /\ thinkTicks' = 0
    /\ UNCHANGED <<gameLevel, isGameOver>>
    /\ UNCHANGED <<gvars, svars, cvars, mvars, lvars, hvars, evars, tvars, ivars, fvars, dvars, wvars>>

\* the timeout of handleSessionCorrect or handleSessionWrong: nextQuestion
GameNextQuestion ==
    /\ pendingNext # 0
    /\ gameLevel' = pendingNext
    /\ pendingNext' = 0
    /\ UNCHANGED <<gameScore, gameCombo, timeLeft, playedCount, thinkTicks, wrongCount,
                   isGameOver>>
    /\ UNCHANGED <<gvars, svars, cvars, mvars, lvars, hvars, evars, tvars, ivars, fvars, dvars, wvars>>

GameInit ==
    /\ GenIdle
    /\ SubmitIdle
    /\ OtherIdle
    /\ session = IssueSession(<<97, 49>>, <<117, 49>>)

GameNext ==
    \/ GameTick
    \/ GameCorrect
    \/ GameWrong
    \/ GameNextQuestion

SpecGame == GameInit /\ [][GameNext]_vars

\* ------------------------------------------------------------------------
\* The last seconds of a SuneungGame session: the player lets the time run
\* down and answers only when few seconds are left
\* ------------------------------------------------------------------------
\* the player answers only with at most this many seconds left
LastSeconds == 5
\* most answers of such a session
MaxLate == 3

LateAnswer == timeLeft <= LastSeconds /\ playedCount < MaxLate

LateCorrect == LateAnswer /\ GameCorrect

LateWrong == LateAnswer /\ GameWrong

LateNext ==
    \/ TimerTick
    \/ LateCorrect
    \/ LateWrong
    \/ GameNextQuestion

SpecLate == GameInit /\ [][LateNext]_vars

\* ------------------------------------------------------------------------
\* The end of a game under React (SuneungGame, MiddleSchoolGame): the state,
\* the closures of the latest render, the interval of useGameTimer.  The
\* player gives wrong answers only; times are in tenths of a second.
\* ------------------------------------------------------------------------
\* most answers of such a session
MaxEndAnswers == 2

EndKinds == {"suneung", "middle"}

EndUnchanged == UNCHANGED <<gvars, svars, cvars, mvars, lvars, kvars, hvars, tvars, ivars, fvars, dvars, wvars>>

\* handleGameOver as the closure of the latest render runs it, applied to
\* the state st: if (isGameOver) return; setIsGameOver(true); onGameEnd(...)
EndGameOver(st) == IF endView.over THEN st ELSE [st EXCEPT !.over = TRUE]
EndGameOverCalls == IF endView.over THEN endCalls ELSE endCalls + 1

\* React renders; the effect of useGameTimer clears the interval and sets a
\* new one if isPlaying.  Rendering after onGameEnd, the page unmounts the game
EndRender ==
    /\ endView # endState
    /\ endView' = endState
    /\ endInterval' = ~endState.over
    /\ UNCHANGED <<endKind, endState, endTimeouts, endAnswers, endCalls>>
    /\ EndUnchanged

\* the interval callback: setTime(prev => ...), with onComplete at prev <= 1
EndTick ==
    /\ endInterval
    /\ IF endState.time <= 10
       THEN /\ endState' = EndGameOver([endState EXCEPT !.time = 0])
            /\ endCalls' = EndGameOverCalls
            /\ endInterval' = FALSE
       ELSE /\ endState' = [endState EXCEPT !.time = endState.time - 10]
            /\ UNCHANGED <<endCalls, endInterval>>
    /\ UNCHANGED <<endKind, endView, endTimeouts, endAnswers>>
    /\ EndUnchanged

\* the guard of submitAnswer: the feedback of the closure, and in
\* useMiddleGameSession the isSubmittingRef lock as well
EndAccepts ==
    /\ ~endView.over
    /\ ~endView.feedback
    /\ endKind = "middle" => ~endState.feedback

\* SuneungGame.handleSessionWrong after a wrong answer at combo 0
EndWrongSuneung ==
    /\ endKind = "suneung"
    /\ EndAccepts
    /\ endAnswers < MaxEndAnswers
    /\ endAnswers' = endAnswers + 1
    /\ endState' = [endState EXCEPT !.feedback = TRUE,
                                    !.time = Max(0, endState.time - 50)]
    /\ endTimeouts' = endTimeouts + 1
    /\ UNCHANGED <<endKind, endView, endInterval, endCalls>>
    /\ EndUnchanged

\* MiddleSchoolGame.handleSessionWrong: timePenalty 3.5; with nextTimeLeft <= 4
\* it sets the time to 0 and calls handleGameOver instead of setting the timeout
EndWrongMiddle ==
    /\ endKind = "middle"
    /\ EndAccepts
    /\ endAnswers < MaxEndAnswers
    /\ endAnswers' = endAnswers + 1
    /\ IF Max(0, endView.time - 35) <= 40
       THEN /\ endState' = EndGameOver([endState EXCEPT !.feedback = TRUE, !.time = 0])
            /\ endCalls' = EndGameOverCalls
            /\ UNCHANGED endTimeouts
       ELSE /\ endState' = [endState EXCEPT !.feedback = TRUE,
                                            !.time = Max(0, endState.time - 35)]
            /\ endTimeouts' = endTimeouts + 1
            /\ UNCHANGED endCalls
    /\ UNCHANGED <<endKind, endView, endInterval>>
    /\ EndUnchanged

\* a timeout fires: nextQuestion, whose loadQuestion clears the feedback
EndNextQuestion ==
    /\ endTimeouts > 0
    /\ ~endView.over
    /\ endTimeouts' = endTimeouts - 1
    /\ endState' = [endState EXCEPT !.feedback = FALSE]
    /\ UNCHANGED <<endKind, endView, endInterval, endAnswers, endCalls>>
    /\ EndUnchanged

EndInit ==
    /\ GenIdle
    /\ SubmitIdle
    /\ ChoicesIdle
    /\ MiddleIdle
    /\ LeaderboardIdle
    /\ GameIdle
    /\ HookIdle
    /\ TokenIdle
    /\ InterleaveIdle
    /\ FillIdle
    /\ DiffIdle
    /\ TwinIdle
    /\ session = IssueSession(<<97, 49>>, <<117, 49>>)
    /\ endKind \in EndKinds
    /\ endState = EndInitialState
    /\ endView = EndInitialState
    /\ endInterval = TRUE
    /\ endTimeouts = 0
    /\ endAnswers = 0
    /\ endCalls = 0

EndNext ==
    \/ EndRender
    \/ EndTick
    \/ EndWrongSuneung
    \/ EndWrongMiddle
    \/ EndNextQuestion

SpecEnd == EndInit /\ [][EndNext]_vars

\* ------------------------------------------------------------------------
\* createToken and verifyToken on their own: api/session creates a token for
\* a seed and an expiry it chooses and a userId the client chooses;
\* api/submitScore verifies with three strings of the request body
\* ------------------------------------------------------------------------
\* longest field
MaxField == 2

\* the digit 1 and the separator |
FieldChars == {49, 124}

RECURSIVE StringsUpTo(_)
StringsUpTo(n) ==
    IF n = 0 THEN {<< >>}
    ELSE StringsUpTo(n - 1)
         \cup { Append(str, ch) : str \in StringsUpTo(n - 1), ch \in FieldChars }

\* the strings a request can carry; the handler rejects an empty one
Fields == StringsUpTo(MaxField) \ {<< >>}
\* what generateSeed and toISOString produce holds no separator
ServerFields == { str \in Fields : \A k \in 1..Len(str) : str[k] # 124 }

\* POST api/session with a userId: the token it returns
CreateTokenCall(seed, userId, expiresAt) ==
    /\ tokenFor = NoTriple
    /\ tokenFor' = [seed |-> seed, userId |-> userId, expiresAt |-> expiresAt]
    /\ UNCHANGED <<tokenTry, tokenOk>>
    /\ UNCHANGED <<gvars, svars, cvars, mvars, lvars, kvars, hvars, evars, ivars, fvars, dvars, wvars>>

\* verifyToken(token, seed, userId, expiresAt) with that token
VerifyTokenCall(seed, userId, expiresAt) ==
    /\ tokenFor # NoTriple
    /\ tokenOk = "none"
    /\ tokenTry' = [seed |-> seed, userId |-> userId, expiresAt |-> expiresAt]
    /\ tokenOk' = IF verifyToken(createToken(tokenFor.seed, tokenFor.userId,
                                             tokenFor.expiresAt),
                                 seed, userId, expiresAt)
                  THEN "true" ELSE "false"
    /\ UNCHANGED tokenFor
    /\ UNCHANGED <<gvars, svars, cvars, mvars, lvars, kvars, hvars, evars, ivars, fvars, dvars, wvars>>

TokenInit ==
    /\ GenIdle
    /\ SubmitIdle
    /\ OtherIdle
    /\ session = IssueSession(<<97, 49>>, <<117, 49>>)

TokenNext ==
    \/ \E seed \in ServerFields, userId \in Fields, expiresAt \in ServerFields :
          CreateTokenCall(seed, userId, expiresAt)
    \/ \E seed \in Fields, userId \in Fields, expiresAt \in Fields :
          VerifyTokenCall(seed, userId, expiresAt)

SpecToken == TokenInit /\ [][TokenNext]_vars

\* ------------------------------------------------------------------------
\* generateQuestion calls that interleave.  A call is split where it uses its
\* rng: creating it, selecting the question, building the choices
\* ------------------------------------------------------------------------
InterleaveArgs ==
    { [seed |-> <<97, 49>>, index |-> 0, level |-> 1, allowedTypes |-> << >>],
      [seed |-> <<97, 49>>, index |-> 1, level |-> 1, allowedTypes |-> << >>],
      [seed |-> <<55, 102>>, index |-> 1, level |-> 4, allowedTypes |-> << >>],
      [seed |-> <<55, 102>>, index |-> 0, level |-> 5, allowedTypes |-> <<"diff", "exp">>] }

InterleaveUnchanged == UNCHANGED <<gvars, svars, cvars, mvars, lvars, kvars, hvars, evars, tvars, fvars, dvars, wvars>>

\* mutant of mulberry32: one state word shared by every closure
mulberry32Shared(rngs, c, seedWord) == [k \in DOMAIN rngs |-> seedWord]

\* mulberry32(seed): a new closure whose own variable a holds the seed
mulberry32(rngs, c, seedWord) == [rngs EXCEPT ![c] = seedWord]

\* a call is in progress
MidCall(call) == call.pc \in {"seeded", "selected"}

\* const combinedSeed = hashSeed(`${seed}-${index}`); const rng = mulberry32(...)
InterleaveSeed(c, args) ==
    /\ icalls[c].pc = "idle"
    /\ irng' = mulberry32(irng, c, combinedSeed(args.seed, args.index))
    /\ icalls' = [k \in 1..MaxCallers |->
                    IF k = c THEN [icalls[c] EXCEPT !.pc = "seeded", !.args = args]
                    ELSE IF MidCall(icalls[k]) THEN [icalls[k] EXCEPT !.overlapped = TRUE]
                    ELSE icalls[k]]
    /\ InterleaveUnchanged

\* the pools, the previous type and the selection loop, drawing from the
\* call's rng
InterleaveSelect(c) ==
    /\ icalls[c].pc = "seeded"
    /\ icalls' = [icalls EXCEPT ![c].pc = "selected",
                                ![c].sel = SelectFrom(irng[c], icalls[c].args.seed,
                                                      icalls[c].args.index,
                                                      icalls[c].args.level,
                                                      icalls[c].args.allowedTypes)]
    /\ irng' = [irng EXCEPT ![c] = icalls'[c].sel.partial.rng]
    /\ InterleaveUnchanged

\* generateCSATChoices(partial.answer, rng, partial.type) and the return
InterleaveReturn(c) ==
    /\ icalls[c].pc = "selected"
    /\ icalls' = [icalls EXCEPT ![c].pc = "returned",
                                ![c].q = QuestionRecord(
                                    icalls[c].args.seed, icalls[c].args.index,
                                    icalls[c].sel.partial, icalls[c].sel.attempts,
                                    ChoicesFor([icalls[c].sel.partial EXCEPT !.rng = irng[c]]))]
    /\ UNCHANGED irng
    /\ InterleaveUnchanged

InterleaveInit ==
    /\ GenIdle
    /\ SubmitIdle
    /\ OtherIdle
    /\ session = IssueSession(<<97, 49>>, <<117, 49>>)

InterleaveNext ==
    \E c \in 1..MaxCallers :
        \/ \E args \in InterleaveArgs : InterleaveSeed(c, args)
        \/ InterleaveSelect(c)
        \/ InterleaveReturn(c)

SpecInterleave == InterleaveInit /\ [][InterleaveNext]_vars

\* ------------------------------------------------------------------------
\* The fill loops of generateCSATChoices and generateCognitiveDistractors,
\* one pass of the while loop per step.  taken is selectedDistractors as the
\* take loop left it.
\* ------------------------------------------------------------------------
FillUnchanged == UNCHANGED <<gvars, svars, cvars, mvars, lvars, kvars, hvars, evars, tvars, ivars, dvars, wvars>>

EnterFill(kind, answer, taken) ==
    /\ fill.pc = "idle"
    /\ fill' = [kind |-> kind, answer |-> answer, selected |-> taken, offset |-> 1,
                pc |-> "loop"]
    /\ FillUnchanged

\* generateCSATChoices(answer, rng, type) with an answer that passes the guard
\* reaches let offset = 1
EnterCSATFill(answer, s, type) ==
    EnterFill("csat", answer,
              TakeFour(ShuffleAll(FilterDistractors(ChoicePool(answer, type), answer), s).arr,
                       1, <<>>))

\* generateCognitiveDistractors(answer, rng, type) reaches let offset = 1
EnterCognitiveFill(answer, s, type) ==
    EnterFill("cognitive", answer,
              TakeFour(ShuffleAll(CognitiveFilter(CognitivePool(answer, type), answer), s).arr,
                       1, <<>>))

\* the loop test fails: the code after the loop runs
FillExit ==
    /\ fill.pc = "loop"
    /\ Len(fill.selected) >= 4
    /\ fill' = [fill EXCEPT !.pc = "done"]
    /\ FillUnchanged

\* while (selected.size < 4) { ...; offset++; if (offset > 20) break }
CSATFillPass ==
    /\ fill.pc = "loop"
    /\ fill.kind = "csat"
    /\ Len(fill.selected) < 4
    /\ fill' = [fill EXCEPT
                  !.selected = FillBody(fill.selected, fill.answer, FillStep(fill.answer),
                                        fill.offset),
                  !.offset = FillAdvance(fill.offset),
                  !.pc = IF FillAdvance(fill.offset) > MaxOffset THEN "done" ELSE "loop"]
    /\ FillUnchanged

\* while (selectedDistractors.size < 4) { ...; offset++ }
CognitiveFillPass ==
    /\ fill.pc = "loop"
    /\ fill.kind = "cognitive"
    /\ Len(fill.selected) < 4
    /\ fill' = [fill EXCEPT
                  !.selected = CognitiveBody(fill.selected, fill.answer, fill.offset),
                  !.offset = FillAdvance(fill.offset)]
    /\ FillUnchanged

FillInit ==
    /\ GenIdle
    /\ SubmitIdle
    /\ session = IssueSession(<<97, 49>>, <<117, 49>>)
    /\ OtherIdle

FillRngs == {<<0, 1>>, <<40000, 65535>>}

FillNext ==
    \/ \E answer \in 1..MaxAnswer, s \in FillRngs, type \in {"exp", "diff", "log", "generic"} :
          EnterCSATFill(answer, s, type)
    \/ \E answer \in (0 - MaxAnswer)..MaxAnswer, s \in FillRngs, type \in TypeTags \cup {"generic"} :
          EnterCognitiveFill(answer, s, type)
    \/ FillExit
    \/ CSATFillPass
    \/ CognitiveFillPass

\* code that is running goes on running: a loop that can make a pass makes it
SpecFill ==
    /\ FillInit
    /\ [][FillNext]_vars
    /\ WF_vars(FillExit) /\ WF_vars(CSATFillPass) /\ WF_vars(CognitiveFillPass)

\* ------------------------------------------------------------------------
\* generateType2Question(rng), one pass of its for loop per step.  rng is the
\* function passed in: each Math.floor(rng() * n) is some value of 0..n-1.
\* ------------------------------------------------------------------------
DiffUnchanged == UNCHANGED <<gvars, svars, cvars, mvars, lvars, kvars, hvars, evars, tvars, ivars, fvars, wvars>>

\* let B = 0, C = 0, D = 0, a = 0, answer = 0; attempts = 0
DiffCallStart ==
    /\ diffCall.pc = "idle"
    /\ diffCall' = [diffCall EXCEPT !.pc = "loop"]
    /\ DiffUnchanged

\* one pass of the for loop with the four draws made in it; the loop is left
\* by break or when attempts reaches 100
DiffAttempt(B, C, D, a) ==
    /\ diffCall.pc = "loop"
    /\ diffCall' = [pc |-> IF 3 * a * a + 2 * B * a + C > 0 \/ diffCall.attempts + 1 >= 100
                           THEN "after" ELSE "loop",
                    attempts |-> IF 3 * a * a + 2 * B * a + C > 0 THEN diffCall.attempts
                                 ELSE diffCall.attempts + 1,
                    B |-> B, C |-> C, D |-> D, a |-> a,
                    answer |-> Type2Try(B, C, D, a, <<0, 0>>).answer]
    /\ DiffUnchanged

\* the fallback after the loop, then the question is built from B, C, D, a
\* and answer
DiffReturn ==
    /\ diffCall.pc = "after"
    /\ diffCall' = [Type2Fallback(diffCall) EXCEPT !.pc = "returned"]
    /\ DiffUnchanged

DiffInit ==
    /\ GenIdle
    /\ SubmitIdle
    /\ session = IssueSession(<<97, 49>>, <<117, 49>>)
    /\ OtherIdle

DiffNext ==
    \/ DiffCallStart
    \/ \E B \in (0 - 2)..2, C \in (0 - 2)..2, D \in 1..9, a \in 1..3 : DiffAttempt(B, C, D, a)
    \/ DiffReturn

SpecDiff == DiffInit /\ [][DiffNext]_vars

\* ------------------------------------------------------------------------
\* useGameSession under React: state, the closures of the latest render, and
\* the timeouts SuneungGame sets in onCorrect and onWrong
\* ------------------------------------------------------------------------
\* most taps (submitAnswer or submitPass calls) in a session
MaxTaps == 4

HookSeed == <<97, 49>>

\* loadQuestion(index, level): the state after its setters
LoadQuestion(index) ==
    [currentIndex |-> hookState.currentIndex, question |-> index,
     feedback |-> "null", isProcessing |-> FALSE]

\* the effect of SuneungGame that loads question 0 once the generator is ready
HookLoadFirst ==
    /\ hookState.question = -1
    /\ hookState.currentIndex = 0
    /\ hookState' = LoadQuestion(0)
    /\ UNCHANGED <<hookView, playedLog, timers, taps>>
    /\ UNCHANGED <<gvars, svars, cvars, mvars, lvars, kvars, evars, tvars, ivars, fvars, dvars, wvars>>

\* React renders: the callbacks are re-created over the current state
HookRender ==
    /\ hookView # hookState
    /\ hookView' = hookState
    /\ UNCHANGED <<hookState, playedLog, timers, taps>>
    /\ UNCHANGED <<gvars, svars, cvars, mvars, lvars, kvars, evars, tvars, ivars, fvars, dvars, wvars>>

\* the guard of submitAnswer and submitPass, read from the closure
HookAccepts ==
    /\ hookView.question # -1
    /\ hookView.feedback = "null"
    /\ ~hookView.isProcessing

\* what submitAnswer and submitPass do once past the guard: push the entry,
\* set the feedback, and (onCorrect, onWrong) set the nextQuestion timeout
HookRecord(feedback) ==
    /\ taps < MaxTaps
    /\ HookAccepts
    /\ taps' = taps + 1
    /\ playedLog' = Append(playedLog, QuestionId(HookSeed, hookView.question))
    /\ hookState' = [hookState EXCEPT !.isProcessing = TRUE, !.feedback = feedback]
    /\ timers' = Append(timers, hookView.currentIndex + 1)
    /\ UNCHANGED hookView
    /\ UNCHANGED <<gvars, svars, cvars, mvars, lvars, kvars, evars, tvars, ivars, fvars, dvars, wvars>>

HookSubmitAnswer(isCorrect) ==
    HookRecord(IF isCorrect THEN "correct" ELSE "wrong")

HookSubmitPass == HookRecord("wrong")

\* a timeout fires: nextQuestion of the render the tap happened in
HookNextQuestion(k) ==
    /\ k \in 1..Len(timers)
    /\ hookState' = [LoadQuestion(timers[k]) EXCEPT !.currentIndex = timers[k]]
    /\ timers' = Without(timers, k)
    /\ UNCHANGED <<hookView, playedLog, taps>>
    /\ UNCHANGED <<gvars, svars, cvars, mvars, lvars, kvars, evars, tvars, ivars, fvars, dvars, wvars>>

HookInit ==
    /\ GenIdle
    /\ SubmitIdle
    /\ OtherIdle
    /\ session = IssueSession(<<97, 49>>, <<117, 49>>)

HookNext ==
    \/ HookLoadFirst
    \/ HookRender
    \/ \E isCorrect \in BOOLEAN : HookSubmitAnswer(isCorrect)
    \/ HookSubmitPass
    \/ \E k \in 1..MaxTaps : HookNextQuestion(k)

SpecHook == HookInit /\ [][HookNext]_vars

\* ------------------------------------------------------------------------
\* Properties of generateQuestion (specification Spec)
\* ------------------------------------------------------------------------
Returned == gpc # "idle"

C4_ChoicesValid ==
    Returned =>
        /\ Len(gq.choices) = 5
        /\ \A k \in 1..(Len(gq.choices) - 1) : gq.choices[k] < gq.choices[k + 1]
        /\ \A k \in 1..Len(gq.choices) : gq.choices[k] \in Nat \ {0}
        /\ Cardinality(Range(gq.choices)) = Len(gq.choices)
        /\ gq.answer \in Range(gq.choices)

C4_Witness ==
    /\ gpc = "called"
    /\ gq.type = "diff"
    /\ Len(gq.choices) = 5
    /\ gq.answer \in Range(gq.choices)
    /\ gq.answer # gq.choices[1]

\* C5: the answer of every returned question is a positive integer, and so is
\* the answer of the hardcoded question used when all 50 attempts fail.
C5_AnswerPositive ==
    /\ Returned => (gq.isInteger /\ gq.answer \in Nat \ {0})
    /\ Hardcoded(<<0, 0>>).isInteger /\ Hardcoded(<<0, 0>>).answer \in Nat \ {0}

C5_Witness ==
    /\ gpc = "called"
    /\ gq.type = "trig_basic"
    /\ gq.isInteger
    /\ gq.answer > 0

ValidNames(types) == \A k \in 1..Len(types) : types[k] \in Range(QTypes)

\* C9: with a non-empty allowed-type list of valid names, the type of the
\* returned question is a member of that list.
C9_TypeAllowed ==
    (Returned /\ Len(gArgs.allowedTypes) > 0 /\ ValidNames(gArgs.allowedTypes)) =>
        gq.type \in Range(gArgs.allowedTypes)

C9_Witness ==
    /\ gpc = "called"
    /\ gArgs.allowedTypes = <<"diff", "exp">>
    /\ gArgs.level = 1
    /\ gq.type = "diff"

\* C10: a second call with the same seed and index returns the same id,
\* whatever its level, its allowed-type list and the answer it produces.
C10_IdOnlySeedIndex ==
    gpc = "recalled" =>
        /\ gq.id = firstQ.id
        /\ gq.id = QuestionId(gArgs.seed, gArgs.index)

C10_Witness ==
    /\ gpc = "recalled"
    /\ gArgs.level # firstArgs.level
    /\ gArgs.allowedTypes # firstArgs.allowedTypes
    /\ gq.answer # firstQ.answer
    /\ gq.type # firstQ.type
    /\ gq.id = firstQ.id

\* candidates the last selection attempt can leave behind when its answer is
\* not a positive integer: a fraction, zero or a negative number
InvalidPartials ==
    { Partial("", <<>>, isInteger, answer, "trig_basic", s) :
        isInteger \in BOOLEAN, answer \in {-1, 0}, s \in {<<0, 1>>, <<40000, 65535>>} }
    \cup { Partial("", <<>>, FALSE, 1, "trig_basic", <<7, 7>>) }

\* generateQuestion for a selection loop that ended with candidate p
AfterLastAttempt(p) ==
    WithChoices(<<97, 49>>, 0, OrHardcoded([partial |-> p, attempts |-> MaxAttempts - 1]))

\* C11: generateQuestion returns a complete question and never throws; a
\* selection loop that ends on an invalid answer yields the hardcoded
\* question "2 + 3 = ?" with answer 5 and five choices, not an error.
C11_NeverThrows ==
    /\ Returned =>
          /\ ~gq.threw
          /\ Len(gq.choices) = 5
          /\ gq.attempts < MaxAttempts
    /\ gpc = "called" =>
          \A p \in InvalidPartials :
              /\ ~AfterLastAttempt(p).threw
              /\ AfterLastAttempt(p).latex.tpl = "2 + 3 = ?"
              /\ AfterLastAttempt(p).answer = 5
              /\ Len(AfterLastAttempt(p).choices) = 5

C11_Witness ==
    /\ gpc = "called"
    /\ ~gq.threw
    /\ gq.attempts > 0
    /\ gArgs.allowedTypes = <<"int", "bogus", "seq">>
    /\ AfterLastAttempt(Partial("", <<>>, FALSE, 0, "trig_basic", <<0, 1>>)).answer = 5

\* ------------------------------------------------------------------------
\* Properties of generateCSATChoices (specification SpecChoices)
\* ------------------------------------------------------------------------
\* C12: generateCSATChoices throws whenever its answer is not an integer
\* (a fraction, NaN, an infinity) or is <= 0, and the rng closure is then in
\* the state it was passed in: nothing was drawn.
C12_ThrowsBeforeDrawing ==
    cpc = "returned" =>
        /\ (~cArgs.isInteger \/ cArgs.answer <= 0) =>
              (cOut.threw /\ cOut.rng = cArgs.rng /\ cOut.choices = <<>>)
        /\ cOut.threw => (~cArgs.isInteger \/ cArgs.answer <= 0)

C12_Witness ==
    /\ cpc = "returned"
    /\ cArgs.isInteger
    /\ cArgs.answer = 0
    /\ cOut.threw
    /\ cOut.rng = cArgs.rng

\* ------------------------------------------------------------------------
\* Properties of the score submission endpoint (specification SpecSubmit)
\* ------------------------------------------------------------------------
AllChecks == <<"fields", "expiresAt", "token", "expiry", "replay", "scoreMax",
               "scoreNegative">>

MismatchError == "Question sequence mismatch"

\* the played-question list of the request, empty when the field is absent
Played == req.playedQuestions

\* positions (1-based) whose questionId differs from `${seed}-${k - 1}`, the
\* id of the question for the request's seed and that position
ForgedAt ==
    { k \in 1..Len(Played) :
        /\ req.seed # <<>>
        /\ Played[k].isObject
        /\ Played[k].questionId # QuestionId(req.seed, k - 1) }

NullAt == { k \in 1..Len(Played) : ~Played[k].isObject }

\* the replay loop reaches a forged entry: the earlier checks pass and no
\* entry before the first forged one makes the loop throw
ReplayReachesForged ==
    /\ "expiry" \in Range(passed)
    /\ \E k \in ForgedAt : \A j \in NullAt : j > k

ErrorStatus == {400, 403, 500}

\* C2: for a log built by calling generateQuestion(seed, i, level_i) for
\* i = 0..N-1 in order, the replay finds every id equal: it never answers with
\* a sequence mismatch, and once started it runs through all N entries.
C2_HonestReplayMatches ==
    ~edited =>
        /\ resp.error # MismatchError
        /\ (pc = "done" /\ "expiry" \in Range(passed)) =>
              ("replay" \in Range(passed) /\ i = Len(Played))

C2_Witness ==
    /\ pc = "done"
    /\ ~edited
    /\ Len(Played) >= 2
    /\ Played[1].level # Played[2].level
    /\ i = Len(Played)
    /\ resp.status = 200

\* C3 as stated: a submission with a forged questionId is answered with
\* status 403 'Question sequence mismatch' and addScore is not called.
C3_AsStated ==
    (pc = "done" /\ ForgedAt # {}) =>
        /\ resp = [status |-> 403, error |-> MismatchError]
        /\ added = <<>>

\* C3 (amended): a submission with a forged questionId is answered with an
\* error status, never reaches addScore and leaves the leaderboard as it was;
\* the answer is 403 'Question sequence mismatch' whenever the replay loop
\* reaches the forged entry.
C3_ForgedIdRejected ==
    (pc = "done" /\ ForgedAt # {}) =>
        /\ resp.status \in ErrorStatus
        /\ added = <<>>
        /\ entries = EmptyEntries
        /\ ReplayReachesForged => resp = [status |-> 403, error |-> MismatchError]

C3_Witness ==
    /\ pc = "done"
    /\ Len(Played) >= 2
    /\ ForgedAt = {2}
    /\ i = 1
    /\ resp = [status |-> 403, error |-> MismatchError]
    /\ added = <<>>

\* the submitted score is above 1500 x playedQuestions.length or below zero
ScoreOutOfRange ==
    /\ req.hasLog
    /\ Gt(req.score, PerQuestionMax * Len(Played)) \/ Lt(req.score, 0)

C7_AddedScoresAreNaturals ==
    \A k \in 1..Len(added) :
        /\ added[k][2].kind = "number"
        /\ added[k][2].twice >= 0
        /\ added[k][2].twice % 2 = 0

\* C8: addScore is called only after the token check, the expiry check, the
\* whole replay loop and both score checks have passed, in that order, and a
\* failed check answers with an error and leaves the leaderboard unchanged.
C8_PersistAfterAllChecks ==
    /\ \E n \in 0..Len(AllChecks) : passed = SubSeq(AllChecks, 1, n)
    /\ added # <<>> =>
          /\ passed = AllChecks
          /\ req.token = session.token /\ req.seed = session.seed
          /\ req.userId = session.userId /\ req.expiresAt = session.expiresAt
          /\ now <= SessionTTL
          /\ ForgedAt = {} /\ NullAt = {} /\ i = Len(Played)
          /\ ~Gt(req.score, PerQuestionMax * Len(Played))
          /\ ~Lt(req.score, 0)
    /\ (pc = "done" /\ passed # AllChecks) =>
          /\ resp.status \in ErrorStatus
          /\ added = <<>>
          /\ entries = EmptyEntries

C8_Witness ==
    /\ pc = "done"
    /\ passed = AllChecks
    /\ Len(Played) >= 2
    /\ added = << <<req.userId, req.score>> >>
    /\ entries[req.userId] = Num(2 * PerQuestionMax)
    /\ resp.status = 200

\* ------------------------------------------------------------------------
\* Properties of generateMiddleQuestion (specification SpecMiddle)
\* ------------------------------------------------------------------------
\* C13: two calls of generateMiddleQuestion with the same seed, index and
\* allowedTypes return the same id, answer, latex and choices.
C13_MiddleDeterministic ==
    mpc = "recalled" =>
        /\ mq.id = mFirstQ.id
        /\ mq.answer = mFirstQ.answer
        /\ mq.latex = mFirstQ.latex
        /\ mq.choices = mFirstQ.choices

\* choices has length 5, ascends strictly and holds the answer
MiddleChoicesValid(choices, answer) ==
    /\ Len(choices) = 5
    /\ \A k \in 1..(Len(choices) - 1) : choices[k] < choices[k + 1]
    /\ Cardinality({k \in 1..Len(choices) : choices[k] = answer}) = 1

\* C14: the choices of every middle question, and of every direct call of
\* generateCognitiveDistractors with an integer answer (positive, zero or
\* negative) and any type tag, are 5 strictly ascending values without
\* duplicates that contain the answer exactly once.
C14_MiddleChoicesValid ==
    /\ mpc \in {"called", "recalled"} => MiddleChoicesValid(mq.choices, mq.answer)
    /\ mpc = "direct" => MiddleChoicesValid(dOut, dArgs.answer)

C14_Witness ==
    /\ mpc = "direct"
    /\ dArgs.answer < 0
    /\ dArgs.type = "sign_integer"
    /\ Len(dOut) = 5
    /\ dArgs.answer \in Range(dOut)

\* ------------------------------------------------------------------------
\* Properties of a middle-mode submission (specification SpecMiddleSubmit)
\* ------------------------------------------------------------------------
\* the score sent is within what the handler allows for the log sent
MiddleScorePlausible ==
    /\ ~ScoreExceeds(req.score, PerQuestionMax * Len(req.playedQuestions))
    /\ ~ScoreNegative(req.score)

\* C15: a middle-mode session whose log holds the ids generateMiddleQuestion
\* returned, sent with the session's seed and a valid unexpired token, passes
\* the replay verification and is persisted.
C15_HonestMiddlePersisted ==
    (pc = "done" /\ "expiry" \in Range(passed) /\ MiddleScorePlausible) =>
        /\ "replay" \in Range(passed)
        /\ resp.status = 200
        /\ added = <<<<req.userId, req.score>>>>

\* ------------------------------------------------------------------------
\* Properties of the leaderboards (specification SpecLeaderboard)
\* ------------------------------------------------------------------------
\* the score a leaderboard shows for a user, a missing entry counting as 0
StoredScore(u) == IF Falsy(lbData[u]) THEN Num(0) ELSE lbData[u]

\* C16: after any sequence of addScore calls executed one at a time, the score
\* stored for a user is the highest score submitted for that user, so a later
\* lower or equal score never replaces a higher one.
C16_StoredIsMaximum ==
    \A u \in Users : lbBest[u] # Undefined => StoredScore(u) = lbBest[u]

\* C19: for an index above 0, the previous type used against repetition is
\* the type of the question generateQuestion returns for the index before,
\* under the same level and allowedTypes.
C19_PrevTypeIsPrecedingType ==
    (gpc # "idle" /\ gArgs.index > 0)
        => PrevType(gArgs.seed, gArgs.index, gArgs.level)
             = generateQuestion(gArgs.seed, gArgs.index - 1, gArgs.level,
                                gArgs.allowedTypes).type

\* the call made has an index above 0 and a pool of more than one generator
RepeatGuarded ==
    /\ gpc # "idle"
    /\ gArgs.index > 0
    /\ Len(AvailableGenerators(gArgs.level, gArgs.allowedTypes)) > 1

\* C20: for an index above 0 and a pool of more than one generator, a
\* candidate of the computed previous type is accepted only from attempt 10
\* on (attempts count from 0), and the selection loop makes at most 50
\* attempts.
C20_RepeatOnlyAfterTenAttempts ==
    RepeatGuarded
        => /\ gq.attempts < MaxAttempts
           /\ gq.type = PrevType(gArgs.seed, gArgs.index, gArgs.level)
                => gq.attempts >= RepeatAttempts

\* a call whose first candidate was valid and of the previous type, and was
\* passed over for a later candidate of another type
C20_Witness ==
    /\ RepeatGuarded
    /\ IsValidAnswer(DrawQuestion(AvailableGenerators(gArgs.level, gArgs.allowedTypes),
                                  RngAdvance(combinedSeed(gArgs.seed, gArgs.index))))
    /\ DrawQuestion(AvailableGenerators(gArgs.level, gArgs.allowedTypes),
                    RngAdvance(combinedSeed(gArgs.seed, gArgs.index))).type
         = PrevType(gArgs.seed, gArgs.index, gArgs.level)
    /\ gq.attempts > 0
    /\ gq.type # PrevType(gArgs.seed, gArgs.index, gArgs.level)

\* the types the level table names for a level
LevelTypes(level) ==
    CASE level = 1 -> {"exp", "log", "trig_basic", "limit_basic"}
      [] level = 2 -> {"exp", "log", "trig_basic", "limit_basic", "diff", "continuity"}
      [] level = 3 -> {"trig_basic", "limit_basic", "diff", "continuity", "sigma_basic",
                       "seq"}
      [] level = 4 -> {"diff", "continuity", "sigma_basic", "seq", "int", "extrema"}
      [] OTHER -> {"exp", "diff", "seq", "int", "log", "trig_basic", "limit_basic",
                   "continuity", "sigma_basic", "extrema"}

\* C26: without allowedTypes, the type of the returned question lies in the
\* pool of the requested level.
C26_TypeInLevelPool ==
    (gpc # "idle" /\ gArgs.allowedTypes = << >>) => gq.type \in LevelTypes(gArgs.level)

\* a call without allowedTypes at level 1 and one at level 4 that returned a
\* type only the level-4 pool holds among the first four levels
C26_Witness ==
    /\ gpc = "recalled"
    /\ firstArgs.allowedTypes = << >>
    /\ firstArgs.level = 1
    /\ firstQ.type \in LevelTypes(1)
    /\ gArgs.allowedTypes = << >>
    /\ gArgs.level = 4
    /\ gq.type \in {"int", "extrema"}

\* the generators in a pool
PoolSet(pool) == { pool[k] : k \in 1..Len(pool) }

\* C27: when allowedTypes is supplied and names no generator, generateQuestion
\* selects from the full pool of ten generators.
C27_EmptyFilterUsesFullPool ==
    (gpc # "idle" /\ Len(gArgs.allowedTypes) > 0 /\ MapFilter(gArgs.allowedTypes) = << >>)
        => PoolSet(AvailableGenerators(gArgs.level, gArgs.allowedTypes)) = 0..9

\* ------------------------------------------------------------------------
\* Properties of a SuneungGame session (specification SpecGame)
\* ------------------------------------------------------------------------
\* C17: after every answer the accumulated score is at most 1500 times the
\* number of entries of the played-question log, which is the ceiling the
\* server compares the submitted score with.
C17_ScoreWithinCeiling == gameScore <= PerQuestionMax * playedCount

\* ------------------------------------------------------------------------
\* Properties of useGameSession (specification SpecHook)
\* ------------------------------------------------------------------------
\* C18: each displayed question contributes exactly one entry to the
\* played-question log, so the entry at position k (from 0) has the id of
\* question k of the seed.
C18_OneEntryPerQuestion ==
    \A k \in 1..Len(playedLog) : playedLog[k] = QuestionId(HookSeed, k - 1)

\* ------------------------------------------------------------------------
\* Properties of overlapping addScore calls (specification SpecOverlap)
\* ------------------------------------------------------------------------
\* every addScore call issued has returned
OverlapQuiet == \A c \in 1..MaxOverlap : lbOps[c].pc \in {"idle", "done"}

\* C21: when addScore calls overlap in time, once they have returned the
\* score stored for every user is the highest one submitted for that user.
C21_OverlapKeepsMaximum ==
    OverlapQuiet => \A u \in Users : lbBest[u] # Undefined => StoredScore(u) = lbBest[u]

\* ------------------------------------------------------------------------
\* Properties of the end of a SuneungGame session (specification SpecLate)
\* ------------------------------------------------------------------------
\* the time is 0 and the game is not over: only the penalty of a wrong answer
\* leaves this state, a tick that reaches 0 ends the game in the same step
ZeroByWrong == timeLeft = 0 /\ ~isGameOver

\* C22: once the penalty of a wrong answer has brought the time to 0, no
\* further question is loaded and no further answer is recorded or scored.
C22_ZeroTimeEndsGame ==
    [][ZeroByWrong => /\ pendingNext' = pendingNext
                      /\ playedCount' = playedCount
                      /\ gameScore' = gameScore]_vars

\* ------------------------------------------------------------------------
\* Properties of the end of a game under React (specification SpecEnd)
\* ------------------------------------------------------------------------
\* C23: onGameEnd is invoked at most once in a game session, also when the
\* countdown reaches zero and a wrong answer ends the game within the same
\* render.
C23_GameEndsOnce == endCalls <= 1

\* ------------------------------------------------------------------------
\* Properties of the session token (specification SpecToken)
\* ------------------------------------------------------------------------
\* C24: verifyToken succeeds only for the seed, userId and expiresAt the
\* token was created for.
C24_TokenBindsTriple == tokenOk = "true" => tokenTry = tokenFor

\* ------------------------------------------------------------------------
\* Properties of interleaved generateQuestion calls (specification
\* SpecInterleave)
\* ------------------------------------------------------------------------
\* C25: what a generateQuestion call returns is what the call returns on its
\* own, whatever other calls ran before it or interleaved with it.
C25_CallsDoNotInterfere ==
    \A c \in 1..MaxCallers :
        icalls[c].pc = "returned"
            => icalls[c].q = generateQuestion(icalls[c].args.seed, icalls[c].args.index,
                                              icalls[c].args.level,
                                              icalls[c].args.allowedTypes)

\* a call has returned during which a call with other arguments created its rng
C25_Witness ==
    \E c, d \in 1..MaxCallers :
        /\ icalls[c].pc = "returned"
        /\ icalls[c].overlapped
        /\ icalls[d].pc # "idle"
        /\ icalls[d].args # icalls[c].args


\* C28: every fill loop that has been entered, that of generateCSATChoices and
\* that of generateCognitiveDistractors, is left after finitely many passes
C28_FillTerminates == (fill.pc = "loop") ~> (fill.pc = "done")

\* the uncapped loop of generateCognitiveDistractors is left after at least
\* two passes
C28_Witness == fill.kind = "cognitive" /\ fill.pc = "done" /\ fill.offset > 2


HandlerComputesPOST ==
    pc = "done" => POST(req, now) = [resp |-> resp, added |-> added]

\* C30: two submissions that differ only in the level, correct, selectedAnswer
\* and timeMs fields of their log entries get the same response and have the
\* same score persisted
C30_OutcomeIgnoresEntryFields == twin.pc = "done" => twin.first = twin.second

\* an accepted log of two entries and the same log with another level, another
\* correct flag, a selectedAnswer and a timeMs in its second entry
C30_Witness ==
    /\ twin.pc = "done"
    /\ twin.first.resp.status = 200
    /\ twin.first.added = << <<twin.body.userId, twin.body.score>> >>
    /\ Len(twin.body.playedQuestions) = 2
    /\ twin.other.playedQuestions[1] = twin.body.playedQuestions[1]
    /\ twin.other.playedQuestions[2].level # twin.body.playedQuestions[2].level
    /\ twin.other.playedQuestions[2].correct # twin.body.playedQuestions[2].correct
    /\ twin.other.playedQuestions[2].timeMs = 900

====
